---- MODULE Spec2Model ----
(***************************************************************************)
(* A model of the Liquipedia ETL core: the paginated, rate-limited fetch   *)
(* client (scripts/lib/api_utils.py), the get-or-create reconcilers and    *)
(* the tournament resolver (scripts/lib/db_utils.py) over the relational   *)
(* schema of scripts/00_setup_database.py.                                 *)
(***************************************************************************)
EXTENDS Integers, Sequences, FiniteSets, TLC

(***************************************************************************)
(* Bounds of the model.                                                    *)
(***************************************************************************)
\* Largest page size the configuration and the callers are given.
MaxLimit == 2
\* Network requests issued in one behaviour.
MaxRequests == 4
\* Calls of the reconcilers in one behaviour.
MaxCalls == 2
\* Calls of the reconcilers in one behaviour that feeds them refused values.
MaxFeedCalls == 2
\* Calls made in one behaviour that resolves match series.
MaxResolveCalls == 3
\* Calls made in one behaviour that resolves match series against tournaments
\* with overlapping windows.
MaxOverlapCalls == 4
\* Calls made in one behaviour that bulk-loads batches.
MaxBulkCalls == 4
\* Calls made in one behaviour that stores and cleans up test data.
MaxTestCalls == 5
\* Tournament rows stored before match series are resolved.
MaxTournaments == 2
\* Records a loader script goes through in one run.
MaxLoadItems == 4
\* Latest day a match is played on.
MaxDate == 4

(***************************************************************************)
(* Python values.                                                          *)
(***************************************************************************)
\* A key that a dict does not hold.
Missing == "<missing>"

\* The return value None of a function that otherwise returns a list.
PyNone == [none |-> TRUE, items |-> <<>>]

\* A list return value.
PyList(s) == [none |-> FALSE, items |-> s]

(***************************************************************************)
(* Configuration (config.py, made from config-template.py).                *)
(***************************************************************************)
PLACEHOLDER_KEY == "YOUR_LIQUIPEDIA_API_KEY"

\* Seconds slept after a request.
API_REQUEST_DELAY == 60

VARIABLES
    API_KEY,        \* config: the API key
    API_V3_LIMIT,   \* config: the API's maximum page size
    pc,             \* "idle" | "loop" (inside fetch_all's while) | "done"
    op,             \* the function called last: "none" | "fetch_all" | "request"
    base_params,    \* fetch_all's base_params: [wiki, hasLimit, limit]
    all_records,    \* fetch_all's accumulator
    offset,         \* fetch_all's offset
    limit_per_page, \* fetch_all's page size
    ret,            \* the value returned by the call, once pc = "done"
    attempts,       \* calls of make_api_v3_request made by the current call
    log,            \* the requests put on the wire by the current call, with their answers
    requests,       \* requests put on the wire since the process started
    sleeps,         \* rate-limit pauses taken since the process started
    elapsed,        \* seconds spent in rate-limit pauses
    db,             \* the store as the open transaction sees it: tables, sequences, state
    committed,      \* the tables as last committed
    last,           \* the last db_utils call made on the connection directly
    calls,          \* db_utils calls made on the connection directly
    run             \* the loader script that runs: where it is, what it has done

fetchVars == <<API_KEY, API_V3_LIMIT, pc, op, base_params, all_records, offset,
               limit_per_page, ret, attempts, log, requests, sleeps, elapsed>>

dbVars == <<db, committed, last, calls>>

vars == <<fetchVars, dbVars, run>>

(***************************************************************************)
(* The remote API: what one HTTP GET can come back with.                   *)
(***************************************************************************)
\* ok: 2xx with a "result" list;  http_error: 4xx/5xx (raise_for_status raises);
\* bad_body: 2xx whose body has no "result" list;  transport_error: requests.get
\* itself raises (connection refused, timeout).
ResponseKinds == {"ok", "http_error", "bad_body", "transport_error"}

\* The records of the page answered to the r-th request of a call: n records,
\* each named by the request and its position in the page.
Page(r, n) == [i \in 1..n |-> <<r, i>>]

\* An answer is its kind and the records its body carries; the body of an error
\* answer may carry records too, and a request that never got an answer has none.
Responses(r, limit) ==
    [kind : ResponseKinds \ {"transport_error"}, page : {Page(r, n) : n \in 0..limit}]
        \cup [kind : {"transport_error"}, page : {<<>>}]

WikiValues == {Missing, "", "counterstrike"}

ParamSets ==
    [wiki : WikiValues, hasLimit : {TRUE}, limit : 1..(MaxLimit + 1)]
        \cup [wiki : WikiValues, hasLimit : {FALSE}, limit : {0}]

\* A faulty variant of make_api_v3_request: the API key is never looked at.
make_api_v3_request_NoKeyCheck(key, params, resp) ==
    IF params.wiki = Missing \/ params.wiki = ""
    THEN [ret |-> PyNone, issued |-> FALSE, slept |-> FALSE]
    ELSE IF resp.kind = "transport_error"
    THEN [ret |-> PyNone, issued |-> TRUE, slept |-> FALSE]
    ELSE IF resp.kind = "http_error" \/ resp.kind = "bad_body"
    THEN [ret |-> PyNone, issued |-> TRUE, slept |-> TRUE]
    ELSE [ret |-> PyList(resp.page), issued |-> TRUE, slept |-> TRUE]

\* A faulty variant of make_api_v3_request: the HTTP status is never looked at.
make_api_v3_request_NoRaiseForStatus(key, params, resp) ==
    IF key = PLACEHOLDER_KEY
    THEN [ret |-> PyNone, issued |-> FALSE, slept |-> FALSE]
    ELSE IF params.wiki = Missing \/ params.wiki = ""
    THEN [ret |-> PyNone, issued |-> FALSE, slept |-> FALSE]
    ELSE IF resp.kind = "transport_error"
    THEN [ret |-> PyNone, issued |-> TRUE, slept |-> FALSE]
    ELSE IF resp.kind = "bad_body"
    THEN [ret |-> PyNone, issued |-> TRUE, slept |-> TRUE]
    ELSE [ret |-> PyList(resp.page), issued |-> TRUE, slept |-> TRUE]

(***************************************************************************)
(* make_api_v3_request: one GET.  Gives the value returned, whether a      *)
(* request went on the wire, and whether the rate-limit pause was taken.   *)
(***************************************************************************)
make_api_v3_request(key, params, resp) ==
    IF key = PLACEHOLDER_KEY
    THEN [ret |-> PyNone, issued |-> FALSE, slept |-> FALSE]
    ELSE IF params.wiki = Missing \/ params.wiki = ""
    THEN [ret |-> PyNone, issued |-> FALSE, slept |-> FALSE]
    ELSE IF resp.kind = "transport_error"
    THEN [ret |-> PyNone, issued |-> TRUE, slept |-> FALSE]
    ELSE IF resp.kind = "http_error" \/ resp.kind = "bad_body"
    THEN [ret |-> PyNone, issued |-> TRUE, slept |-> TRUE]
    ELSE [ret |-> PyList(resp.page), issued |-> TRUE, slept |-> TRUE]

\* A faulty variant of LimitPerPage: the limit asked for is taken as it is.
LimitPerPageUncapped(bp, apiLimit) == IF bp.hasLimit THEN bp.limit ELSE apiLimit

\* limit_per_page of fetch_all_api_v3_data.
LimitPerPage(bp, apiLimit) ==
    LET asked == IF bp.hasLimit THEN bp.limit ELSE apiLimit
    IN  IF asked > apiLimit THEN apiLimit ELSE asked

\* all_records.extend(batch)
Extend(records, batch) == records \o batch

\* A faulty variant of IsShortPage: a short page never ends the loop.
IsShortPageNever(batch, limit) == FALSE

\* The test that ends the loop after a short page: len(batch) < limit_per_page.
IsShortPage(batch, limit) == Len(batch) < limit

\* A faulty variant of NextOffset: the offset stays where it is.
NextOffsetStuck(current, batch) == current

\* offset += len(batch)
NextOffset(current, batch) == current + Len(batch)

\* What a call of make_api_v3_request does to the process-wide counters and the log.
Account(r, entry) ==
    /\ requests' = requests + (IF r.issued THEN 1 ELSE 0)
    /\ sleeps' = sleeps + (IF r.slept THEN 1 ELSE 0)
    /\ elapsed' = elapsed + (IF r.slept THEN API_REQUEST_DELAY ELSE 0)
    /\ log' = IF r.issued THEN Append(log, entry) ELSE log

(***************************************************************************)
(* fetch_all_api_v3_data.                                                  *)
(***************************************************************************)
\* The call, up to the first iteration of the loop.
FetchCall(bp) ==
    /\ pc \in {"idle", "done"}
    /\ op' = "fetch_all"
    /\ base_params' = bp
    /\ all_records' = <<>>
    /\ offset' = 0
    /\ limit_per_page' = LimitPerPage(bp, API_V3_LIMIT)
    /\ attempts' = 0
    /\ log' = <<>>
    /\ IF bp.wiki = Missing \/ bp.wiki = ""
       THEN pc' = "done" /\ ret' = PyList(<<>>)
       ELSE pc' = "loop" /\ ret' = PyNone
    /\ UNCHANGED <<API_KEY, API_V3_LIMIT, requests, sleeps, elapsed>>

\* One iteration of the loop, and the return that follows a break.
FetchIteration(resp) ==
    /\ pc = "loop"
    /\ requests < MaxRequests
    /\ LET current_params == [wiki |-> base_params.wiki, hasLimit |-> TRUE,
                              limit |-> limit_per_page, offset |-> offset]
           r == make_api_v3_request(API_KEY, current_params, resp)
           batch == r.ret.items
           entry == [offset |-> offset, limit |-> limit_per_page,
                     kind |-> resp.kind, page |-> resp.page]
       IN  /\ Account(r, entry)
           /\ attempts' = attempts + 1
           /\ IF r.ret.none
              THEN /\ pc' = "done"
                   /\ ret' = PyList(all_records)
                   /\ UNCHANGED <<all_records, offset>>
              ELSE IF Len(batch) = 0
              THEN /\ pc' = "done"
                   /\ ret' = PyList(all_records)
                   /\ UNCHANGED <<all_records, offset>>
              ELSE /\ all_records' = Extend(all_records, batch)
                   /\ IF IsShortPage(batch, limit_per_page)
                      THEN /\ pc' = "done"
                           /\ ret' = PyList(all_records')
                           /\ UNCHANGED offset
                      ELSE /\ pc' = "loop"
                           /\ offset' = NextOffset(offset, batch)
                           /\ UNCHANGED ret
    /\ UNCHANGED <<API_KEY, API_V3_LIMIT, op, base_params, limit_per_page>>

\* A single request made outside fetch_all (the module's own __main__ calls).
DirectRequest(params, resp) ==
    /\ pc \in {"idle", "done"}
    /\ requests < MaxRequests
    /\ LET sent == [wiki |-> params.wiki, hasLimit |-> TRUE,
                    limit |-> IF params.hasLimit THEN params.limit ELSE API_V3_LIMIT]
           r == make_api_v3_request(API_KEY, sent, resp)
           entry == [offset |-> 0, limit |-> sent.limit,
                     kind |-> resp.kind, page |-> resp.page]
       IN  /\ requests' = requests + (IF r.issued THEN 1 ELSE 0)
           /\ sleeps' = sleeps + (IF r.slept THEN 1 ELSE 0)
           /\ elapsed' = elapsed + (IF r.slept THEN API_REQUEST_DELAY ELSE 0)
           /\ log' = IF r.issued THEN <<entry>> ELSE <<>>
           /\ ret' = r.ret
    /\ op' = "request"
    /\ pc' = "done"
    /\ base_params' = params
    /\ attempts' = 1
    /\ all_records' = <<>>
    /\ offset' = 0
    /\ limit_per_page' = 0
    /\ UNCHANGED <<API_KEY, API_V3_LIMIT, dbVars, run>>

(***************************************************************************)
(* Optional Python values and SQL NULL: None is the empty tuple, a value v  *)
(* is <<v>>.  A name is a sequence of tokens (words and single separator    *)
(* characters); the empty string is the empty sequence.                     *)
(***************************************************************************)
None == <<>>

Some(v) == <<v>>

\* A faulty variant of TruthyName: only None counts as missing.
TruthyNameNotNone(x) == x # None

\* "not x" is false, for a name (a string that may be empty).
TruthyName(x) == x # None /\ x # Some(<<>>)

\* "not x" is false, for a game identifier.
TruthyId(x) == x # None /\ x # Some("")

\* What a db_utils function gives back: the store after it, the value returned,
\* and whether it raised instead of returning.
Returns(d, x) == [db |-> d, ret |-> x, raised |-> FALSE]

Raises(d) == [db |-> d, ret |-> None, raised |-> TRUE]

\* A statement failed: PostgreSQL aborts the open transaction.
Abort(d) == [d EXCEPT !.failed = TRUE]

\* FOREIGN KEY (game_id) REFERENCES Games(game_id)
GameStored(d, game) == \E g \in d.games : g.game_id = game

\* A faulty variant of DateTaken: the server takes whatever is written.
DateTakenAlways(written) == TRUE

\* A written date <<year, month, day>> sent for a DATE column: the server takes
\* it when it names a day of the calendar and refuses the statement otherwise
\* ("1995-00-00", say).
DateTaken(written) ==
    LET leap == written[1] % 4 = 0 /\ (written[1] % 100 # 0 \/ written[1] % 400 = 0)
        days == IF written[2] = 2 THEN (IF leap THEN 29 ELSE 28)
                ELSE IF written[2] \in {4, 6, 9, 11} THEN 30 ELSE 31
    IN  written[1] >= 1 /\ written[2] \in 1..12 /\ written[3] \in 1..days

\* A value of the feed sent for a NUMERIC column, a number or a text: the
\* server takes a number; the texts of the model are no numerals ("TBD").
NumericTaken(value) == "number" \in DOMAIN value

\* The tables of a store, without the sequences and the transaction state.
Tables(d) == [games |-> d.games, teams |-> d.teams, players |-> d.players,
              tournaments |-> d.tournaments, rosters |-> d.rosters, series |-> d.series]

(***************************************************************************)
(* get_or_create_game                                                      *)
(***************************************************************************)
\* A faulty variant of get_or_create_game: ON CONFLICT (game_id) DO UPDATE.
get_or_create_game_Upserting(d, game_id, game_name) ==
    IF d.failed THEN Raises(d)
    ELSE Returns([d EXCEPT !.games = {g \in @ : g.game_id # game_id}
                                        \cup {[game_id |-> game_id, game_name |-> game_name]}],
                 Some(game_id))

get_or_create_game(d, game_id, game_name) ==
    IF d.failed THEN Raises(d)
    ELSE IF GameStored(d, game_id) THEN Returns(d, Some(game_id))
    ELSE Returns([d EXCEPT !.games = @ \cup {[game_id |-> game_id, game_name |-> game_name]}],
                 Some(game_id))

(***************************************************************************)
(* get_or_create_team                                                      *)
(***************************************************************************)
\* A faulty variant of SelectTeam: the lookup finds nothing.
SelectTeamNever(d, name, game) == {}

\* The rows "SELECT team_id FROM Teams WHERE team_name = %s AND game_id = %s" finds.
SelectTeam(d, name, game) ==
    {r \in d.teams : r.team_name = name /\ r.game_id = game}

\* A faulty variant of UpdateTeam: every column is set, supplied or not.
UpdateTeamOverwriting(row, a) ==
    [row EXCEPT !.region = a.region, !.location = a.location,
                !.is_disbanded = a.is_disbanded]

\* The UPDATE of the columns whose argument is not None.
UpdateTeam(row, a) ==
    [row EXCEPT !.region = IF a.region # None THEN a.region ELSE @,
                !.location = IF a.location # None THEN a.location ELSE @,
                !.is_disbanded = IF a.is_disbanded # None THEN a.is_disbanded ELSE @]

\* The INSERT; the sequence gives its value before the constraints are checked.
InsertTeam(d, name, a) ==
    LET id == d.seq.teams
        d1 == [d EXCEPT !.seq.teams = @ + 1]
        row == [team_id |-> id, team_name |-> name, game_id |-> a.game_id[1],
                region |-> a.region, location |-> a.location,
                is_disbanded |-> IF a.is_disbanded = None THEN Some(FALSE)
                                 ELSE a.is_disbanded]
    IN  IF ~GameStored(d, a.game_id[1]) THEN Raises(Abort(d1))
        ELSE Returns([d1 EXCEPT !.teams = @ \cup {row}], Some(id))

get_or_create_team(d, a) ==
    IF ~TruthyId(a.game_id) THEN Returns(d, None)
    ELSE LET team_name_to_use ==
                 IF ~TruthyName(a.team_name) /\ TruthyName(a.api_pagename)
                 THEN a.api_pagename ELSE a.team_name
         IN  IF ~TruthyName(team_name_to_use) THEN Returns(d, None)
             ELSE IF d.failed THEN Raises(d)
             ELSE LET found == SelectTeam(d, team_name_to_use[1], a.game_id[1])
                  IN  IF found # {}
                      THEN LET row == CHOOSE r \in found : TRUE
                           IN  Returns([d EXCEPT !.teams = (@ \ {row}) \cup {UpdateTeam(row, a)}],
                                       Some(row.team_id))
                      ELSE InsertTeam(d, team_name_to_use[1], a)

(***************************************************************************)
(* get_or_create_player                                                    *)
(***************************************************************************)
SelectPlayer(d, nickname, game) ==
    {r \in d.players : r.player_nickname = nickname /\ r.game_id = game}

UpdatePlayer(row, a) ==
    [row EXCEPT !.birth_date = IF a.birth_date # None THEN a.birth_date ELSE @,
                !.nationality = IF a.nationality # None THEN a.nationality ELSE @,
                !.status = IF a.status # None THEN a.status ELSE @,
                !.curr_role = IF a.current_role # None THEN a.current_role ELSE @,
                !.type = IF a.type # None THEN a.type ELSE @]

\* The INSERT.  A birth date the server does not take fails the statement
\* before a value is drawn from the sequence.
InsertPlayer(d, nickname, a) ==
    LET id == d.seq.players
        d1 == [d EXCEPT !.seq.players = @ + 1]
        row == [player_id |-> id, player_nickname |-> nickname, game_id |-> a.game_id[1],
                birth_date |-> a.birth_date, nationality |-> a.nationality,
                status |-> a.status, curr_role |-> a.current_role, type |-> a.type]
    IN  IF a.birth_date # None /\ ~DateTaken(a.birth_date[1]) THEN Raises(Abort(d))
        ELSE IF ~GameStored(d, a.game_id[1]) THEN Raises(Abort(d1))
        ELSE Returns([d1 EXCEPT !.players = @ \cup {row}], Some(id))

get_or_create_player(d, a) ==
    IF ~TruthyId(a.game_id) THEN Returns(d, None)
    ELSE LET nickname_to_use ==
                 IF ~TruthyName(a.player_nickname) /\ TruthyName(a.api_pagename)
                 THEN a.api_pagename ELSE a.player_nickname
         IN  IF ~TruthyName(nickname_to_use) THEN Returns(d, None)
             ELSE IF d.failed THEN Raises(d)
             ELSE LET found == SelectPlayer(d, nickname_to_use[1], a.game_id[1])
                  IN  IF found # {}
                      THEN LET row == CHOOSE r \in found : TRUE
                           IN  IF a.birth_date # None /\ ~DateTaken(a.birth_date[1])
                               THEN Raises(Abort(d))
                               ELSE Returns([d EXCEPT !.players =
                                                (@ \ {row}) \cup {UpdatePlayer(row, a)}],
                                            Some(row.player_id))
                      ELSE InsertPlayer(d, nickname_to_use[1], a)

(***************************************************************************)
(* get_or_create_tournament                                                *)
(***************************************************************************)
SelectTournament(d, name, game, start) ==
    {r \in d.tournaments :
        r.tournament_name = name /\ r.game_id = game /\ r.start_date = start}

UpdateTournament(row, a) ==
    [row EXCEPT !.tier = IF a.tier # None THEN a.tier ELSE @,
                !.end_date = IF a.end_date # None THEN a.end_date ELSE @,
                !.type = IF a.type_val # None THEN a.type_val ELSE @,
                !.region = IF a.region # None THEN a.region ELSE @,
                !.location = IF a.location # None THEN a.location ELSE @,
                !.prize_pool = IF a.prize_pool # None THEN a.prize_pool ELSE @,
                !.tournament_weight = IF a.tournament_weight # None
                                      THEN a.tournament_weight ELSE @]

\* The INSERT.  A prize pool the server does not take fails the statement
\* before a value is drawn from the sequence.
InsertTournament(d, name, a) ==
    LET id == d.seq.tournaments
        d1 == [d EXCEPT !.seq.tournaments = @ + 1]
        row == [tournament_id |-> id, tournament_name |-> name, game_id |-> a.game_id[1],
                tier |-> a.tier, start_date |-> a.start_date, end_date |-> a.end_date,
                type |-> a.type_val, region |-> a.region, location |-> a.location,
                prize_pool |-> a.prize_pool, tournament_weight |-> a.tournament_weight]
    IN  IF a.prize_pool # None /\ ~NumericTaken(a.prize_pool[1]) THEN Raises(Abort(d))
        ELSE IF ~GameStored(d, a.game_id[1]) THEN Raises(Abort(d1))
        ELSE Returns([d1 EXCEPT !.tournaments = @ \cup {row}], Some(id))

get_or_create_tournament(d, a) ==
    IF ~TruthyId(a.game_id) \/ a.start_date = None THEN Returns(d, None)
    ELSE LET name_to_use ==
                 IF ~TruthyName(a.tournament_name) /\ TruthyName(a.api_pagename)
                 THEN a.api_pagename ELSE a.tournament_name
         IN  IF ~TruthyName(name_to_use) THEN Returns(d, None)
             ELSE IF d.failed THEN Raises(d)
             ELSE LET found == SelectTournament(d, name_to_use[1], a.game_id[1], a.start_date)
                  IN  IF found # {}
                      THEN LET row == CHOOSE r \in found : TRUE
                           IN  IF a.prize_pool # None /\ ~NumericTaken(a.prize_pool[1])
                               THEN Raises(Abort(d))
                               ELSE Returns([d EXCEPT !.tournaments =
                                                (@ \ {row}) \cup {UpdateTournament(row, a)}],
                                            Some(row.tournament_id))
                      ELSE InsertTournament(d, name_to_use[1], a)

(***************************************************************************)
(* bulk_insert_data.  A batch is a list of Python values; one that is a     *)
(* dict carries an optional value per column, one that is not a dict has    *)
(* no .get and makes the preparation of its row raise.  The columns kept    *)
(* of MatchSeries are its key, its foreign keys and one score; of           *)
(* TeamRosters its three key columns and roster_id.                         *)
(***************************************************************************)
\* The columns of the two tables in the schema, as far as the rows keep them.
TableColumns(table_name) ==
    IF table_name = "MatchSeries"
    THEN {"series_lp_matchid", "tournament_id", "game_id", "team1_id", "team2_id",
          "team1_series_score"}
    ELSE {"team_id", "player_id", "join_date"}

\* The field of the store that holds the table.
TableField(table_name) == IF table_name = "MatchSeries" THEN "series" ELSE "rosters"

\* tuple(record_dict.get(col) for col in column_names): a column that is not
\* listed is left to its default, NULL.
RowTuple(table_name, record_dict, column_names) ==
    [col \in TableColumns(table_name) |->
        IF col \in column_names THEN record_dict[col] ELSE None]

\* PRIMARY KEY (series_lp_matchid); UNIQUE (team_id, player_id, join_date)
RowKey(table_name, row) ==
    IF table_name = "MatchSeries" THEN <<row.series_lp_matchid>>
    ELSE <<row.team_id, row.player_id, row.join_date>>

\* The NOT NULL columns of the row have a value.
NotNullHolds(table_name, row) ==
    \A col \in TableColumns(table_name) : row[col] # None

\* The FOREIGN KEY constraints of the row hold in the store.
ForeignKeysHold(d, table_name, row) ==
    LET TeamStored(id) == \E t \in d.teams : t.team_id = id[1]
    IN  IF table_name = "MatchSeries"
        THEN /\ \E t \in d.tournaments : t.tournament_id = row.tournament_id[1]
             /\ GameStored(d, row.game_id[1])
             /\ TeamStored(row.team1_id)
             /\ TeamStored(row.team2_id)
        ELSE /\ TeamStored(row.team_id)
             /\ \E p \in d.players : p.player_id = row.player_id[1]

\* The rows of one INSERT reach the table one after the other; acc is the
\* table so far, the keys this statement has written, whether it still stands,
\* and the next value of the roster_id sequence, which every TeamRosters row
\* the statement gets to draws from, stored or not.  on_conflict is "none" (no
\* clause), "nothing" or "update"; a TeamRosters row is stored with its
\* roster_id, which an update leaves as it is.  NOT NULL and the unique key
\* are checked as the row arrives and end the statement there; the FOREIGN
\* KEYs of the rows written are checked after the last row, so a row that
\* breaks one is written and the rows after it are still reached.
InsertRow(d, table_name, acc, row, on_conflict) ==
    LET existing == {x \in acc.rows : RowKey(table_name, x) = RowKey(table_name, row)}
        key == RowKey(table_name, row)
        drawn == [acc EXCEPT !.seq = IF table_name = "TeamRosters" THEN @ + 1 ELSE @]
        failed == [drawn EXCEPT !.ok = FALSE]
        StoredRow(roster_id) ==
            [col \in DOMAIN row \cup {"roster_id"} |->
                IF col = "roster_id" THEN roster_id ELSE row[col]]
    IN  IF ~acc.ok THEN acc
        ELSE IF ~NotNullHolds(table_name, row) THEN failed
        ELSE IF existing = {}
             THEN [drawn EXCEPT
                      !.rows = @ \cup { IF table_name = "TeamRosters"
                                        THEN StoredRow(acc.seq) ELSE row },
                      !.written = @ \cup {key}]
        ELSE IF on_conflict = "nothing" THEN drawn
        ELSE IF on_conflict = "update" /\ key \notin acc.written
             THEN [drawn EXCEPT
                      !.rows = (@ \ existing) \cup
                          { IF table_name = "TeamRosters"
                            THEN StoredRow(x.roster_id) ELSE row :
                            x \in existing },
                      !.written = @ \cup {key}]
        ELSE failed

RECURSIVE InsertRows(_, _, _, _, _)
\* One INSERT statement with the rows of its VALUES list.  After the last row
\* the statement fails if a row it has written breaks a FOREIGN KEY; the rows
\* of a statement that failed are not the table's.
InsertRows(d, table_name, acc, rows, on_conflict) ==
    IF rows = <<>>
    THEN IF /\ acc.ok
            /\ \E x \in acc.rows : /\ RowKey(table_name, x) \in acc.written
                                   /\ ~ForeignKeysHold(d, table_name, x)
         THEN [acc EXCEPT !.ok = FALSE]
         ELSE acc
    ELSE InsertRows(d, table_name, InsertRow(d, table_name, acc, Head(rows), on_conflict),
                    Tail(rows), on_conflict)

RECURSIVE ExecutePages(_, _, _, _, _, _)
\* The list goes to the server page_size rows at a time, one INSERT statement
\* for each page.  A statement that raises stores nothing of its page and ends
\* the call; what the statements before it stored stays in the transaction.
ExecutePages(d, table_name, acc, rows, on_conflict, page_size) ==
    IF rows = <<>> THEN acc
    ELSE LET n == IF Len(rows) < page_size THEN Len(rows) ELSE page_size
             done == InsertRows(d, table_name, [acc EXCEPT !.written = {}],
                                SubSeq(rows, 1, n), on_conflict)
         IN  IF done.ok
             THEN ExecutePages(d, table_name, done, SubSeq(rows, n + 1, Len(rows)),
                               on_conflict, page_size)
             ELSE [acc EXCEPT !.ok = FALSE, !.seq = done.seq]

\* psycopg2.extras.execute_values.  It raises in an aborted transaction, for a
\* column the table does not have, and when a row breaks a constraint; a
\* statement that raises aborts the transaction.  Values drawn from the
\* roster_id sequence are not given back.
execute_values(d, table_name, rows_to_insert, column_names, on_conflict, page_size) ==
    LET field == TableField(table_name)
        done == ExecutePages(d, table_name,
                             [rows |-> d[field], written |-> {}, ok |-> TRUE,
                              seq |-> d.seq.rosters],
                             rows_to_insert, on_conflict, page_size)
        after == [d EXCEPT ![field] = done.rows, !.seq.rosters = done.seq]
    IN  IF d.failed THEN Raises(d)
        ELSE IF ~(column_names \subseteq TableColumns(table_name)) THEN Raises(Abort(d))
        ELSE IF ~done.ok THEN Raises(Abort(after))
        ELSE Returns(after, None)

\* A faulty variant of PreparedRows: a record that is not a dict is kept, as a
\* row of NULLs.
PreparedRowsKeepingAll(table_name, data_list, column_names) ==
    [i \in 1..Len(data_list) |->
        IF data_list[i].is_dict THEN RowTuple(table_name, data_list[i], column_names)
        ELSE [col \in TableColumns(table_name) |-> None]]

\* The preparation loop: a record whose row cannot be built is logged and left
\* out, the loop goes on with the next record.
PreparedRows(table_name, data_list, column_names) ==
    LET dicts == SelectSeq(data_list, LAMBDA record_dict : record_dict.is_dict)
    IN  [i \in 1..Len(dicts) |-> RowTuple(table_name, dicts[i], column_names)]

\* The page_size bulk_insert_data passes to execute_values.
page_size == 500

bulk_insert_data(d, table_name, data_list, column_names, on_conflict) ==
    IF data_list = <<>> THEN Returns(d, Some(0))
    ELSE LET rows_to_insert == PreparedRows(table_name, data_list, column_names)
         IN  IF rows_to_insert = <<>> THEN Returns(d, Some(0))
             ELSE LET r == execute_values(d, table_name, rows_to_insert, column_names,
                                          on_conflict, page_size)
                  IN  IF r.raised THEN r
                      ELSE Returns(r.db, Some(Len(rows_to_insert)))

InSeq(x, seq) == \E i \in 1..Len(seq) : seq[i] = x

(***************************************************************************)
(* upsert_roster_entry: one TeamRosters row, inserted, or updated where its *)
(* key is stored.  a carries the three key columns; the columns the update  *)
(* sets are columns the rows do not keep.                                   *)
(***************************************************************************)
upsert_roster_entry(d, a) ==
    IF \/ a.team_id \in {None, Some(0)}
       \/ a.player_id \in {None, Some(0)}
       \/ a.join_date = None
    THEN Returns(d, None)
    ELSE IF d.failed THEN Raises(d)
    ELSE LET row == [team_id |-> a.team_id, player_id |-> a.player_id,
                     join_date |-> a.join_date]
             done == InsertRows(d, "TeamRosters",
                                [rows |-> d.rosters, written |-> {}, ok |-> TRUE,
                                 seq |-> d.seq.rosters],
                                <<row>>, "update")
             after == [d EXCEPT !.rosters = IF done.ok THEN done.rows ELSE @,
                                !.seq.rosters = done.seq]
         IN  IF ~done.ok THEN Raises(Abort(after))
             ELSE Returns(after,
                          Some((CHOOSE x \in done.rows :
                                   RowKey("TeamRosters", x) = RowKey("TeamRosters", row)
                               ).roster_id))

(***************************************************************************)
(* cleanup_test_data: on a connection of its own, the test team, the test   *)
(* players and their roster rows are looked up and deleted, statement by    *)
(* statement, and the deletion is committed.                                *)
(***************************************************************************)
TEST_GAME_ID == "csgo"

TEST_TEAM_NAME == <<"Test", " ", "Roster", " ", "Team">>

TEST_PLAYER_NICKNAMES == << <<"roster", "_", "player1">>, <<"roster", "_", "player2">> >>

\* The tables without the rows named in gone, a set of <<table, id>> pairs.
Without(d, gone) ==
    [d EXCEPT !.teams = {x \in @ : <<"Teams", x.team_id>> \notin gone},
              !.players = {x \in @ : <<"Players", x.player_id>> \notin gone},
              !.rosters = {x \in @ : <<"TeamRosters", x.roster_id>> \notin gone}]

(***************************************************************************)
(* The caller's transaction: conn.commit() and conn.rollback().            *)
(***************************************************************************)
RolledBack(d, c) ==
    [d EXCEPT !.games = c.games, !.teams = c.teams, !.players = c.players,
              !.tournaments = c.tournaments, !.rosters = c.rosters,
              !.series = c.series, !.failed = FALSE]

(***************************************************************************)
(* find_tournament_id_for_match.  A name is a sequence of tokens: words     *)
(* (runs of letters and digits; a word of the stage catalogue comes in one *)
(* of the spellings of CaseFolded) and the single characters " ", "_", ":" *)
(* and "-".                                                                *)
(***************************************************************************)
\* str.replace('_', ' ')
ReplaceUnderscores(s) == [i \in 1..Len(s) |-> IF s[i] = "_" THEN " " ELSE s[i]]

RECURSIVE RStrip(_)
RStrip(s) ==
    IF s # <<>> /\ s[Len(s)] = " " THEN RStrip(SubSeq(s, 1, Len(s) - 1)) ELSE s

RECURSIVE LStrip(_)
LStrip(s) ==
    IF s # <<>> /\ s[1] = " " THEN LStrip(SubSeq(s, 2, Len(s))) ELSE s

\* str.strip()
Strip(s) == LStrip(RStrip(s))

\* The words of the stage catalogue in the spellings that differ in case only
\* (as the catalogue writes them, in lower case and in upper case), each with
\* its lower-case spelling.
CaseFolded ==
    [a \in {"Opening", "opening", "OPENING"} |-> "opening"]
    @@ [a \in {"Challengers", "challengers", "CHALLENGERS"} |-> "challengers"]
    @@ [a \in {"Legends", "legends", "LEGENDS"} |-> "legends"]
    @@ [a \in {"Champions", "champions", "CHAMPIONS"} |-> "champions"]
    @@ [a \in {"Stage", "stage", "STAGE"} |-> "stage"]
    @@ [a \in {"Playoffs", "playoffs", "PLAYOFFS"} |-> "playoffs"]
    @@ [a \in {"Group", "group", "GROUP"} |-> "group"]
    @@ [a \in {"Finals", "finals", "FINALS"} |-> "finals"]
    @@ [a \in {"Qualifier", "qualifier", "QUALIFIER"} |-> "qualifier"]
    @@ [a \in {"Main", "main", "MAIN"} |-> "main"]
    @@ [a \in {"Event", "event", "EVENT"} |-> "event"]
    @@ [a \in {"Play", "play", "PLAY"} |-> "play"]
    @@ [a \in {"In", "in", "IN"} |-> "in"]
    @@ [a \in {"Last", "last", "LAST"} |-> "last"]
    @@ [a \in {"Chance", "chance", "CHANCE"} |-> "chance"]
    @@ [a \in {"Regional", "regional", "REGIONAL"} |-> "regional"]
    @@ [a \in {"Phase", "phase", "PHASE"} |-> "phase"]
    @@ [a \in {"LCQ", "lcq", "Lcq"} |-> "lcq"]

\* s ends with the tokens of suffix; flags=re.IGNORECASE: two tokens match
\* when they differ in case only.
EndsWith(s, suffix) ==
    /\ Len(suffix) <= Len(s)
    /\ \A i \in 1..Len(suffix) :
          \E a \in {s[Len(s) - Len(suffix) + i]}, b \in {suffix[i]} :
             (IF a \in DOMAIN CaseFolded THEN CaseFolded[a] ELSE a)
                = (IF b \in DOMAIN CaseFolded THEN CaseFolded[b] ELSE b)

DropLast(s, n) == SubSeq(s, 1, Len(s) - n)

\* The alternation shared by the first two stage patterns.
StageNames ==
    { <<"Opening", " ", "Stage">>, <<"Challengers", " ", "Stage">>,
      <<"Legends", " ", "Stage">>, <<"Champions", " ", "Stage">>, <<"Playoffs">>,
      <<"Group", " ", "Stage">>, <<"Finals">>, <<"Qualifier">>, <<"Main", " ", "Event">> }

\* stage_patterns, in order.  sep is what must precede the stage name: ":" or "-"
\* (with any whitespace around it), or " " for at least one whitespace character.
stage_patterns ==
    << [sep |-> ":", alts |-> StageNames],
       [sep |-> "-", alts |-> StageNames],
       [sep |-> " ", alts |-> {<<"Play", "-", "In">>}],
       [sep |-> " ", alts |-> {<<"Last", " ", "Chance", " ", "Qualifier">>}],
       [sep |-> " ", alts |-> {<<"LCQ">>}],
       [sep |-> " ", alts |-> {<<"Regional", " ", "Finals">>}],
       [sep |-> " ", alts |-> {<<"Stage", " ", "1">>, <<"Stage", " ", "2">>,
                               <<"Stage", " ", "3">>}],
       [sep |-> " ", alts |-> {<<"Phase", " ", "1">>, <<"Phase", " ", "2">>,
                               <<"Phase", " ", "3">>}] >>

\* re.sub(pattern, "", s, flags=re.IGNORECASE): the match, if any, is a suffix
\* of s and is removed.
ReSub(pattern, s) ==
    LET t == RStrip(s)
        matching == {alt \in pattern.alts : EndsWith(t, alt)}
    IN  IF matching = {} THEN s
        ELSE LET alt == CHOOSE x \in matching : TRUE
                 before == DropLast(t, Len(alt))
             IN  IF pattern.sep = " "
                 THEN IF before # <<>> /\ before[Len(before)] = " "
                      THEN RStrip(before) ELSE s
                 ELSE LET b == RStrip(before)
                      IN  IF b # <<>> /\ b[Len(b)] = pattern.sep
                          THEN RStrip(DropLast(b, 1)) ELSE s

AppendNew(names, name) ==
    IF name # <<>> /\ ~InSeq(name, names) THEN Append(names, name) ELSE names

\* The positions where sub occurs in s.
Occurrences(s, sub) ==
    {i \in 1..(Len(s) - Len(sub) + 1) : SubSeq(s, i, i + Len(sub) - 1) = sub}

\* s.split(sub)[0]
SplitHead(s, sub) ==
    LET at == Occurrences(s, sub)
        first == CHOOSE i \in at : \A j \in at : i <= j
    IN  SubSeq(s, 1, first - 1)

\* The two "also try stripping common separators" steps of one loop iteration.
WithSeparatorPrefixes(names, base) ==
    LET n1 == IF Occurrences(base, <<":">>) # {}
              THEN AppendNew(names, Strip(SplitHead(base, <<":">>))) ELSE names
    IN  IF Occurrences(base, <<" ", "-", " ">>) # {}
        THEN AppendNew(n1, Strip(SplitHead(base, <<" ", "-", " ">>))) ELSE n1

RECURSIVE SearchNamesFrom(_, _, _)
\* The loop over stage_patterns from pattern i on: search_names at its end.
SearchNamesFrom(i, names, base) ==
    IF i > Len(stage_patterns) THEN names
    ELSE LET stripped_name == Strip(ReSub(stage_patterns[i], base))
             took == stripped_name # base /\ stripped_name # <<>>
             names1 == IF took THEN AppendNew(names, stripped_name) ELSE names
             base1 == IF took THEN stripped_name ELSE base
         IN  SearchNamesFrom(i + 1, WithSeparatorPrefixes(names1, base1), base1)

\* A faulty variant of SearchNames: the most stripped name is tried first.
SearchNamesParentFirst(cleaned) ==
    LET names == SearchNamesFrom(1, <<cleaned>>, cleaned)
    IN  [i \in 1..Len(names) |-> names[Len(names) + 1 - i]]

\* search_names for a cleaned name.
SearchNames(cleaned) == SearchNamesFrom(1, <<cleaned>>, cleaned)

\* A faulty variant of Containing: the query does not restrict the game.
ContainingAnyGame(d, name, game, day) ==
    {r \in d.tournaments :
        /\ r.tournament_name = name
        /\ r.start_date # None /\ r.start_date[1] <= day
        /\ r.end_date # None /\ r.end_date[1] >= day}

\* The containment query for one candidate name.
Containing(d, name, game, day) ==
    {r \in d.tournaments :
        /\ r.tournament_name = name
        /\ r.game_id = game
        /\ r.start_date # None /\ r.start_date[1] <= day
        /\ r.end_date # None /\ r.end_date[1] >= day}

\* A faulty variant of LatestStart: the earliest start wins.
LatestStartEarliest(results) ==
    {r \in results : \A o \in results : r.start_date[1] <= o.start_date[1]}

\* The rows the tie-break loop can end on: those with the latest start date.
LatestStart(results) ==
    {r \in results : \A o \in results : r.start_date[1] >= o.start_date[1]}

Distance(a, b) == IF a >= b THEN a - b ELSE b - a

\* A faulty variant of Fallback: no name-only fallback at all.
FallbackNone(d, name, game, day) == {}

\* A faulty variant of Fallback: the row farthest from the day is taken.
FallbackFarthest(d, name, game, day) ==
    LET rows == {r \in d.tournaments : r.tournament_name = name /\ r.game_id = game}
    IN  {r \in rows : \A o \in rows :
            Distance(r.start_date[1], day) >= Distance(o.start_date[1], day)}

\* The rows "ORDER BY ABS(start_date - day) LIMIT 1" can give for the name-only
\* fallback: any one of the rows at the least distance.
Fallback(d, name, game, day) ==
    LET rows == {r \in d.tournaments : r.tournament_name = name /\ r.game_id = game}
    IN  {r \in rows : \A o \in rows :
            Distance(r.start_date[1], day) <= Distance(o.start_date[1], day)}

\* A faulty variant of Cleaned: underscores are kept.
CleanedKeepingUnderscores(raw) == Strip(raw)

\* tournament_name_cleaned
Cleaned(raw) == Strip(ReplaceUnderscores(raw))

\* The values find_tournament_id_for_match can return.
find_tournament_id_for_match(d, tournament_api_name_raw, game_id, match_date_obj) ==
    IF \/ ~TruthyName(tournament_api_name_raw)
       \/ ~TruthyId(game_id)
       \/ match_date_obj = None
    THEN {None}
    ELSE LET tournament_name_cleaned == Cleaned(tournament_api_name_raw[1])
             game == game_id[1]
             day == match_date_obj[1]
         IN  IF tournament_name_cleaned = <<>> THEN {None}
             ELSE IF d.failed THEN {None}
             ELSE LET search_names == SearchNames(tournament_name_cleaned)
                      hits == {i \in 1..Len(search_names) :
                                  Containing(d, search_names[i], game, day) # {}}
                  IN  IF hits # {}
                      THEN LET i == CHOOSE h \in hits : \A o \in hits : h <= o
                               results == Containing(d, search_names[i], game, day)
                           IN  IF Cardinality(results) = 1
                               THEN {Some(r.tournament_id) : r \in results}
                               ELSE {Some(r.tournament_id) : r \in LatestStart(results)}
                      ELSE LET fallback == Fallback(d, search_names[1], game, day)
                           IN  IF fallback = {} THEN {None}
                               ELSE {Some(r.tournament_id) : r \in fallback}

(***************************************************************************)
(* The store after 00_setup_database.py and 01_fetch_games.py: the games of *)
(* SUPPORTED_GAMES, every other table empty, nothing uncommitted.          *)
(***************************************************************************)
SUPPORTED_GAMES ==
    { [game_id |-> "cs2", game_name |-> "Counter-Strike 2"],
      [game_id |-> "valorant", game_name |-> "Valorant"] }

NoCall == [kind |-> "none", args |-> <<>>, ret |-> None, raised |-> FALSE]

\* No loader script runs.
NotRunning == [script |-> "none", at |-> "idle"]

EmptyStore ==
    [games |-> SUPPORTED_GAMES, teams |-> {}, players |-> {}, tournaments |-> {},
     rosters |-> {}, series |-> {},
     seq |-> [teams |-> 1, players |-> 1, tournaments |-> 1, rosters |-> 1],
     failed |-> FALSE]

InitStore ==
    /\ db = EmptyStore
    /\ committed = Tables(EmptyStore)
    /\ last = NoCall
    /\ calls = 0
    /\ run = NotRunning

\* The fetch client at rest, with a usable configuration.
FetchAtRest ==
    /\ API_KEY = "key"
    /\ API_V3_LIMIT = MaxLimit
    /\ pc = "idle"
    /\ op = "none"
    /\ base_params = [wiki |-> Missing, hasLimit |-> FALSE, limit |-> 0]
    /\ all_records = <<>>
    /\ offset = 0
    /\ limit_per_page = 0
    /\ ret = PyNone
    /\ attempts = 0
    /\ log = <<>>
    /\ requests = 0
    /\ sleeps = 0
    /\ elapsed = 0

(***************************************************************************)
(* Calls of the db_utils functions on the one open connection.             *)
(***************************************************************************)
\* A faulty variant of Called: the call also commits what it did.
CalledCommitting(kind, args, r) ==
    /\ db' = r.db
    /\ last' = [kind |-> kind, args |-> args, ret |-> r.ret, raised |-> r.raised]
    /\ calls' = calls + 1
    /\ committed' = Tables(r.db)
    /\ UNCHANGED <<fetchVars, run>>

\* The call has been made: the store is what it left, and it is the last call.
Called(kind, args, r) ==
    /\ db' = r.db
    /\ last' = [kind |-> kind, args |-> args, ret |-> r.ret, raised |-> r.raised]
    /\ calls' = calls + 1
    /\ UNCHANGED <<committed, fetchVars, run>>

GetOrCreateGame(g) == Called("game", g, get_or_create_game(db, g.game_id, g.game_name))

GetOrCreateTeam(a) == Called("team", a, get_or_create_team(db, a))

GetOrCreatePlayer(a) == Called("player", a, get_or_create_player(db, a))

GetOrCreateTournament(a) == Called("tournament", a, get_or_create_tournament(db, a))

BulkInsertData(b) ==
    Called("bulk", b, bulk_insert_data(db, b.table_name, b.data_list, b.column_names,
                                       b.on_conflict))

\* The call returns one of the values the store's answer allows.
FindTournamentIdForMatch(q) ==
    \E x \in find_tournament_id_for_match(db, q.raw, q.game_id, q.date) :
        Called("find", q, Returns(db, x))

\* conn.commit(): in an aborted transaction PostgreSQL rolls back instead.
Commit ==
    /\ committed' = IF db.failed THEN committed ELSE Tables(db)
    /\ db' = IF db.failed THEN RolledBack(db, committed) ELSE db
    /\ last' = [NoCall EXCEPT !.kind = "commit"]
    /\ UNCHANGED <<calls, fetchVars, run>>

\* conn.rollback()
Rollback ==
    /\ db' = RolledBack(db, committed)
    /\ last' = [NoCall EXCEPT !.kind = "rollback"]
    /\ UNCHANGED <<committed, calls, fetchVars, run>>

(***************************************************************************)
(* Two connections at READ COMMITTED: the db_utils calls on the first,      *)
(* cleanup_test_data() on the second.  A statement sees what is committed   *)
(* when it runs and what its own transaction has done.  run keeps the       *)
(* second connection's place in the script (pc, nickname), what it has      *)
(* found (test_team_id, test_player_ids), the rows its statement has still  *)
(* to delete (todo) and the rows it has deleted and not committed (gone);   *)
(* and of the first connection the committed rows its open transaction has  *)
(* locked (locked) and the roster call that waits for the second (asked).   *)
(* Rows are named by <<table, id>>.                                         *)
(***************************************************************************)
CleanupAtRest ==
    [script |-> "cleanup", pc |-> "select_team", nickname |-> 1,
     test_team_id |-> None, test_player_ids |-> <<>>, todo |-> {}, gone |-> {},
     locked |-> {}, asked |-> None]

\* The second connection after conn.rollback() or conn.commit(), and return.
CleanupOver ==
    [CleanupAtRest EXCEPT !.locked = run.locked, !.asked = run.asked]

\* What a statement of the second connection sees.
CleanupView == Without(committed, run.gone)

\* The stored roster rows with the key of the call.
RosterConflict(d, a) ==
    {x \in d.rosters :
        RowKey("TeamRosters", x) = <<a.team_id, a.player_id, a.join_date>>}

\* The rows the statement of upsert_roster_entry locks: the row it updates, or
\* the team and the player its new row refers to (the FOREIGN KEY checks).
RosterLocks(d, a) ==
    IF RosterConflict(d, a) # {}
    THEN {<<"TeamRosters", x.roster_id>> : x \in RosterConflict(d, a)}
    ELSE {<<"Teams", a.team_id[1]>>, <<"Players", a.player_id[1]>>}

\* The statement is sent and needs a row the second connection has deleted and
\* not committed: it waits until that transaction ends.  A team that is not
\* stored at all fails the first FOREIGN KEY check without a wait.
RosterWaits(a) ==
    /\ a.team_id \notin {None, Some(0)}
    /\ a.player_id \notin {None, Some(0)}
    /\ a.join_date # None
    /\ ~db.failed
    /\ RosterLocks(db, a) \cap run.gone # {}
    /\ RosterConflict(db, a) = {} => \E t \in db.teams : t.team_id = a.team_id[1]

\* upsert_roster_entry has returned or raised.  A statement that raises ends
\* the transaction on the server, which releases its locks.
RosterAnswered(a, r) ==
    /\ db' = r.db
    /\ last' = [kind |-> "upsert", args |-> a, ret |-> r.ret, raised |-> r.raised]
    /\ calls' = calls + 1
    /\ run' = [run EXCEPT !.asked = None,
                          !.locked = IF r.db.failed THEN {}
                                     ELSE IF r.ret = None THEN @
                                     ELSE @ \cup RosterLocks(db, a)]
    /\ UNCHANGED <<committed, fetchVars>>

\* upsert_roster_entry is called: it is answered at once, or its statement waits.
\* The FOREIGN KEY of team_id is checked before that of player_id: a statement
\* that waits for the player's row holds the lock it has taken on the team's.
UpsertRosterEntry(a) ==
    /\ run.asked = None
    /\ IF RosterWaits(a)
       THEN /\ run' = [run EXCEPT
                          !.asked = Some(a),
                          !.locked = IF /\ RosterConflict(db, a) = {}
                                        /\ <<"Teams", a.team_id[1]>> \notin run.gone
                                     THEN @ \cup {<<"Teams", a.team_id[1]>>}
                                     ELSE @]
            /\ UNCHANGED <<db, committed, last, calls, fetchVars>>
       ELSE RosterAnswered(a, upsert_roster_entry(db, a))

\* The second connection's transaction has ended: the waiting statement runs.
UpsertRosterEntryResumes ==
    /\ run.asked # None
    /\ ~RosterWaits(run.asked[1])
    /\ RosterAnswered(run.asked[1], upsert_roster_entry(db, run.asked[1]))

\* conn.commit() and conn.rollback() on the first connection release its locks.
CommitTestData ==
    /\ run.asked = None
    /\ committed' = IF db.failed THEN committed ELSE Tables(db)
    /\ db' = IF db.failed THEN RolledBack(db, committed) ELSE db
    /\ last' = [NoCall EXCEPT !.kind = "commit"]
    /\ run' = [run EXCEPT !.locked = {}]
    /\ UNCHANGED <<calls, fetchVars>>

RollbackTestData ==
    /\ run.asked = None
    /\ db' = RolledBack(db, committed)
    /\ last' = [NoCall EXCEPT !.kind = "rollback"]
    /\ run' = [run EXCEPT !.locked = {}]
    /\ UNCHANGED <<committed, calls, fetchVars>>

\* A step of the second connection: it leaves the first connection's view alone.
CleanupStep(at, after) ==
    /\ run.pc = at
    /\ run.todo = {}
    /\ run' = after
    /\ UNCHANGED <<db, committed, last, calls, fetchVars>>

\* 1. SELECT team_id FROM Teams WHERE team_name = %s AND game_id = %s; fetchone()
SelectTestTeam ==
    \E found \in
        LET ids == {t.team_id : t \in {x \in CleanupView.teams :
                       x.team_name = TEST_TEAM_NAME /\ x.game_id = TEST_GAME_ID}}
        IN  IF ids = {} THEN {None} ELSE {Some(id) : id \in ids} :
        CleanupStep("select_team",
                    [run EXCEPT !.pc = "select_player", !.test_team_id = found])

\* SELECT player_id FROM Players WHERE player_nickname = %s AND game_id = %s,
\* for the next of TEST_PLAYER_NICKNAMES.
SelectTestPlayer ==
    \E found \in
        LET ids == {p.player_id : p \in {x \in CleanupView.players :
                       /\ x.player_nickname = TEST_PLAYER_NICKNAMES[run.nickname]
                       /\ x.game_id = TEST_GAME_ID}}
        IN  IF ids = {} THEN {None} ELSE {Some(id) : id \in ids} :
        CleanupStep("select_player",
                    [run EXCEPT
                        !.test_player_ids = IF found = None THEN @ ELSE Append(@, found[1]),
                        !.nickname = IF @ = Len(TEST_PLAYER_NICKNAMES) THEN 1 ELSE @ + 1,
                        !.pc = IF run.nickname = Len(TEST_PLAYER_NICKNAMES)
                               THEN "delete_rosters_team" ELSE @])

\* 2. DELETE FROM TeamRosters WHERE team_id = %s, if the team was found.
DeleteRostersOfTestTeam ==
    CleanupStep("delete_rosters_team",
                [run EXCEPT !.pc = "delete_rosters_players",
                            !.todo = {<<"TeamRosters", r.roster_id>> :
                                         r \in {x \in CleanupView.rosters :
                                                   /\ run.test_team_id # None
                                                   /\ x.team_id = run.test_team_id}}])

\* DELETE FROM TeamRosters WHERE player_id IN %s, if a player was found.
DeleteRostersOfTestPlayers ==
    CleanupStep("delete_rosters_players",
                [run EXCEPT !.pc = "delete_players",
                            !.todo = {<<"TeamRosters", r.roster_id>> :
                                         r \in {x \in CleanupView.rosters :
                                                   InSeq(x.player_id[1],
                                                         run.test_player_ids)}}])

\* 3. DELETE FROM Players WHERE player_id IN %s, if a player was found.
DeleteTestPlayers ==
    CleanupStep("delete_players",
                [run EXCEPT !.pc = "delete_team",
                            !.todo = {<<"Players", p.player_id>> :
                                         p \in {x \in CleanupView.players :
                                                   InSeq(x.player_id,
                                                         run.test_player_ids)}}])

\* 4. DELETE FROM TournamentPlacements WHERE team_id = %s (a table that is not
\* kept) and DELETE FROM Teams WHERE team_id = %s, if the team was found.
DeleteTestTeam ==
    CleanupStep("delete_team",
                [run EXCEPT !.pc = "commit",
                            !.todo = {<<"Teams", t.team_id>> :
                                         t \in {x \in CleanupView.teams :
                                                   Some(x.team_id) = run.test_team_id}}])

\* The statement deletes one of its rows, when the first connection holds no
\* lock on it.  With a team or a player go the roster rows that refer to it
\* (ON DELETE CASCADE); a match series that refers to the team (ON DELETE
\* RESTRICT) makes the statement raise, and the script rolls back and returns.
CleanupDeletesRow ==
    /\ \E x \in run.todo \ run.locked :
          IF /\ x[1] = "Teams"
             /\ \E r \in CleanupView.series : Some(x[2]) \in {r.team1_id, r.team2_id}
          THEN run' = CleanupOver
          ELSE run' = [run EXCEPT
                          !.gone = @ \cup {x},
                          !.todo = (@ \ {x}) \cup
                              {<<"TeamRosters", r.roster_id>> :
                                  r \in {y \in Without(committed, run.gone).rosters :
                                            \/ x[1] = "Teams" /\ y.team_id = Some(x[2])
                                            \/ x[1] = "Players" /\ y.player_id = Some(x[2])}}]
    /\ UNCHANGED <<db, committed, last, calls, fetchVars>>

\* conn.commit() on the second connection: its deletions are now what every
\* later statement of the first connection sees.
CleanupCommit ==
    /\ run.pc = "commit"
    /\ run.todo = {}
    /\ committed' = Without(committed, run.gone)
    /\ db' = Without(db, run.gone)
    /\ run' = CleanupOver
    /\ UNCHANGED <<last, calls, fetchVars>>

\* Each connection waits for a row the other holds: the server ends the wait
\* by failing the statement of one of them.  The roster statement has drawn
\* its roster_id by then; the script rolls back and returns.
DeadlockDetected ==
    /\ run.asked # None
    /\ RosterWaits(run.asked[1])
    /\ run.todo \cap run.locked # {}
    /\ \/ RosterAnswered(run.asked[1],
                         Raises(Abort([db EXCEPT !.seq.rosters = @ + 1])))
       \/ /\ run' = CleanupOver
          /\ UNCHANGED <<db, committed, last, calls, fetchVars>>

(***************************************************************************)
(* The arguments the reconcilers are called with.                          *)
(***************************************************************************)
\* name, page name and game: a name; only a page name; a name and a page name in
\* another game; an empty name; no game; a game that is not stored.
KeyInputs ==
    { [name |-> Some(<<"Alpha">>), page |-> None, game |-> Some("cs2")],
      [name |-> None, page |-> Some(<<"Beta">>), game |-> Some("cs2")],
      [name |-> Some(<<"Alpha">>), page |-> Some(<<"Beta">>), game |-> Some("valorant")],
      [name |-> Some(<<>>), page |-> None, game |-> Some("cs2")],
      [name |-> Some(<<"Alpha">>), page |-> None, game |-> None],
      [name |-> Some(<<"Alpha">>), page |-> None, game |-> Some("dota2")] }

\* Nothing supplied; everything supplied; one attribute alone, changed; everything
\* supplied with another attribute changed.
TeamAttributes ==
    { [region |-> None, location |-> None, is_disbanded |-> None],
      [region |-> Some("Europe"), location |-> Some("France"), is_disbanded |-> Some(FALSE)],
      [region |-> Some("Americas"), location |-> None, is_disbanded |-> None],
      [region |-> Some("Europe"), location |-> Some("France"), is_disbanded |-> Some(TRUE)] }

TeamInputs ==
    { [team_name |-> k.name, api_pagename |-> k.page, game_id |-> k.game,
       region |-> p.region, location |-> p.location, is_disbanded |-> p.is_disbanded]
      : k \in KeyInputs, p \in TeamAttributes }

PlayerAttributes ==
    { [birth_date |-> None, nationality |-> None, status |-> None,
       current_role |-> None, type |-> None],
      [birth_date |-> Some(<<1990, 1, 1>>), nationality |-> Some("Denmark"), status |-> Some("Active"),
       current_role |-> Some("Rifler"), type |-> Some("player")],
      [birth_date |-> None, nationality |-> None, status |-> Some("Inactive"),
       current_role |-> None, type |-> None],
      [birth_date |-> Some(<<1990, 1, 1>>), nationality |-> Some("Denmark"), status |-> Some("Active"),
       current_role |-> Some("Rifler"), type |-> Some("staff")] }

PlayerInputs ==
    { [player_nickname |-> k.name, api_pagename |-> k.page, game_id |-> k.game,
       birth_date |-> p.birth_date, nationality |-> p.nationality, status |-> p.status,
       current_role |-> p.current_role, type |-> p.type]
      : k \in KeyInputs, p \in PlayerAttributes }

TournamentAttributes ==
    { [tier |-> None, end_date |-> None, type_val |-> None, region |-> None,
       location |-> None, prize_pool |-> None, tournament_weight |-> None],
      [tier |-> Some("1"), end_date |-> Some(2), type_val |-> Some("Offline"),
       region |-> Some("Europe"), location |-> Some("France"), prize_pool |-> Some([number |-> 1000]),
       tournament_weight |-> Some(70)],
      [tier |-> None, end_date |-> Some(1), type_val |-> None, region |-> None,
       location |-> None, prize_pool |-> None, tournament_weight |-> None],
      [tier |-> Some("1"), end_date |-> Some(2), type_val |-> Some("Offline"),
       region |-> Some("Europe"), location |-> Some("France"), prize_pool |-> Some([number |-> 1000]),
       tournament_weight |-> Some(85)] }

\* The keys with start date 1, the first key with start date 2, and no start date.
TournamentKeyInputs ==
    { [name |-> k.name, page |-> k.page, game |-> k.game, start |-> Some(1)]
      : k \in KeyInputs }
    \cup { [name |-> Some(<<"Alpha">>), page |-> None, game |-> Some("cs2"), start |-> s]
           : s \in {Some(2), None} }

TournamentInputs ==
    { [tournament_name |-> k.name, api_pagename |-> k.page, game_id |-> k.game,
       start_date |-> k.start, tier |-> p.tier, end_date |-> p.end_date,
       type_val |-> p.type_val, region |-> p.region, location |-> p.location,
       prize_pool |-> p.prize_pool, tournament_weight |-> p.tournament_weight]
      : k \in TournamentKeyInputs, p \in TournamentAttributes }

GameInputs ==
    { [game_id |-> "cs2", game_name |-> "CS2"],
      [game_id |-> "dota2", game_name |-> "Dota 2"] }

(***************************************************************************)
(* The tournaments the resolver is asked about, and its queries.           *)
(***************************************************************************)
MajorX == <<"Major", " ", "X">>

MajorXPageName == <<"Major", "_", "X">>

MajorXPlayoffs == <<"Major", " ", "X", ":", " ", "Playoffs">>

\* The date windows of the stored tournaments.
Windows == { <<1, 1>>, <<1, 2>>, <<2, 3>>, <<3, 3>> }

\* A tournament stored under its name, or, the name missing, under its page name.
StoredTournamentNames ==
    { [name |-> Some(MajorX), page |-> Some(MajorXPageName), game |-> Some("cs2")],
      [name |-> Some(MajorX), page |-> None, game |-> Some("valorant")],
      [name |-> None, page |-> Some(MajorXPageName), game |-> Some("cs2")],
      [name |-> Some(MajorXPlayoffs), page |-> None, game |-> Some("cs2")] }

ResolverTournamentInputs ==
    { [tournament_name |-> k.name, api_pagename |-> k.page, game_id |-> k.game,
       start_date |-> Some(w[1]), tier |-> None, end_date |-> Some(w[2]),
       type_val |-> None, region |-> None, location |-> None,
       prize_pool |-> None, tournament_weight |-> None]
      : k \in StoredTournamentNames, w \in Windows }

\* The names match records carry: display names, page names, stage names, and
\* a stage name written in lower case.
RawNames ==
    {Some(MajorX), Some(MajorXPageName), Some(MajorXPlayoffs),
     Some(MajorXPageName \o <<":", " ", "Playoffs">>),
     Some(MajorX \o <<" ", "stage", " ", "2">>)}

\* A match record that lacks its tournament, carries a blank one, or has no date;
\* a call without game.
IncompleteQueries ==
    { [raw |-> None, game_id |-> Some("cs2"), date |-> Some(1)],
      [raw |-> Some(<<>>), game_id |-> Some("cs2"), date |-> Some(1)],
      [raw |-> Some(<<" ", "_">>), game_id |-> Some("cs2"), date |-> Some(1)],
      [raw |-> Some(MajorX), game_id |-> None, date |-> Some(1)],
      [raw |-> Some(MajorX), game_id |-> Some("cs2"), date |-> None] }

Queries ==
    [raw : RawNames,
     game_id : {Some("cs2"), Some("valorant")},
     date : {Some(day) : day \in 1..MaxDate}]
        \cup IncompleteQueries

(***************************************************************************)
(* The batches the bulk loader is given.                                   *)
(***************************************************************************)
\* An element of a batch that is not a dict (None, say).
NotADict == [is_dict |-> FALSE]

SeriesDict(id, tournament_id, score) ==
    [is_dict |-> TRUE, series_lp_matchid |-> Some(id), tournament_id |-> tournament_id,
     game_id |-> Some("cs2"), team1_id |-> Some(1), team2_id |-> Some(1),
     team1_series_score |-> Some(score)]

RosterDict(join_date) ==
    [is_dict |-> TRUE, team_id |-> Some(1), player_id |-> Some(1),
     join_date |-> Some(join_date)]

\* No record; one; two; one and a record that is not a dict; one key twice; one
\* record without a tournament.
SeriesBatches ==
    { <<>>,
      <<NotADict>>,
      <<SeriesDict("m1", Some(1), 0)>>,
      <<SeriesDict("m1", Some(1), 1)>>,
      <<SeriesDict("m1", Some(1), 0), SeriesDict("m2", Some(1), 0)>>,
      <<SeriesDict("m1", Some(1), 0), NotADict>>,
      <<NotADict, SeriesDict("m2", Some(1), 0)>>,
      <<SeriesDict("m1", Some(1), 0), SeriesDict("m1", Some(1), 1)>>,
      <<SeriesDict("m1", Some(1), 0), SeriesDict("m2", None, 0)>> }

RosterBatches ==
    { <<RosterDict(1)>>,
      <<RosterDict(1), RosterDict(2)>>,
      <<RosterDict(1), NotADict>>,
      <<RosterDict(1), RosterDict(1)>> }

\* The column list the match-series loader passes: it names a column "tier".
series_cols == TableColumns("MatchSeries") \cup {"tier"}

\* The column list the roster loader passes.
roster_cols == TableColumns("TeamRosters")

\* The calls of bulk_insert_data: the two the loaders make, and MatchSeries
\* with the columns of the schema, with and without a conflict clause.
BulkInputs ==
    [table_name : {"MatchSeries"}, data_list : SeriesBatches,
     column_names : {series_cols, TableColumns("MatchSeries")},
     on_conflict : {"update", "none"}]
    \cup [table_name : {"TeamRosters"}, data_list : RosterBatches,
          column_names : {roster_cols}, on_conflict : {"nothing"}]

\* The rows a batch refers to: one team, one player and one tournament of cs2.
BulkTeamInputs ==
    { [team_name |-> Some(<<"Alpha">>), api_pagename |-> None, game_id |-> Some("cs2"),
       region |-> None, location |-> None, is_disbanded |-> None] }

BulkPlayerInputs ==
    { [player_nickname |-> Some(<<"Alpha">>), api_pagename |-> None,
       game_id |-> Some("cs2"), birth_date |-> None, nationality |-> None,
       status |-> None, current_role |-> None, type |-> None] }

BulkTournamentInputs ==
    { [tournament_name |-> Some(<<"Alpha">>), api_pagename |-> None,
       game_id |-> Some("cs2"), start_date |-> Some(1), end_date |-> Some(2),
       tier |-> None, type_val |-> None, region |-> None, location |-> None,
       prize_pool |-> None, tournament_weight |-> None] }

(***************************************************************************)
(* Test data: the rows cleanup_test_data looks for, another player of the   *)
(* test game, and the roster entries that join them.                        *)
(***************************************************************************)
TestTeamInputs ==
    { [team_name |-> Some(TEST_TEAM_NAME), api_pagename |-> None,
       game_id |-> Some(TEST_GAME_ID), region |-> None, location |-> None,
       is_disbanded |-> None] }

TestPlayerInputs ==
    { [player_nickname |-> Some(n), api_pagename |-> None, game_id |-> Some(TEST_GAME_ID),
       birth_date |-> None, nationality |-> None, status |-> None,
       current_role |-> None, type |-> None]
      : n \in {TEST_PLAYER_NICKNAMES[1], TEST_PLAYER_NICKNAMES[2], <<"Alpha">>} }

\* Team 1 with players 1 and 2, joined on day 1 or 2; a call without team, one
\* without join date, and one for a team that is not stored.
RosterInputs ==
    [team_id : {Some(1)}, player_id : {Some(1), Some(2)}, join_date : {Some(1), Some(2)}]
    \cup { [team_id |-> None, player_id |-> Some(1), join_date |-> Some(1)],
           [team_id |-> Some(1), player_id |-> Some(1), join_date |-> None],
           [team_id |-> Some(2), player_id |-> Some(1), join_date |-> Some(1)] }

(***************************************************************************)
(* Specifications.                                                         *)
(***************************************************************************)
\* The fetch client against an arbitrary remote API.
InitFetch ==
    /\ API_KEY \in {PLACEHOLDER_KEY, "key"}
    /\ API_V3_LIMIT \in 1..MaxLimit
    /\ pc = "idle"
    /\ op = "none"
    /\ base_params = [wiki |-> Missing, hasLimit |-> FALSE, limit |-> 0]
    /\ all_records = <<>>
    /\ offset = 0
    /\ limit_per_page = 0
    /\ ret = PyNone
    /\ attempts = 0
    /\ log = <<>>
    /\ requests = 0
    /\ sleeps = 0
    /\ elapsed = 0
    /\ InitStore

NextFetch ==
    \/ \E bp \in ParamSets : FetchCall(bp) /\ UNCHANGED <<dbVars, run>>
    \/ \E resp \in Responses(Len(log) + 1, limit_per_page) :
          FetchIteration(resp) /\ UNCHANGED <<dbVars, run>>
    \/ \E params \in ParamSets :
         \E resp \in Responses(1, IF params.hasLimit THEN params.limit ELSE API_V3_LIMIT) :
            DirectRequest(params, resp)

SpecFetch == InitFetch /\ [][NextFetch]_vars

\* The fetch client against a remote API that has finitely many full pages to
\* give and, sooner or later, answers a request otherwise: with an empty page, a
\* page shorter than the page size, or a failure.
FullPageAnswer ==
    /\ requests < MaxRequests - 1
    /\ FetchIteration([kind |-> "ok", page |-> Page(Len(log) + 1, limit_per_page)])
    /\ UNCHANGED <<dbVars, run>>

OtherAnswer ==
    \E resp \in Responses(Len(log) + 1, limit_per_page) :
        /\ resp.kind # "ok" \/ Len(resp.page) < limit_per_page
        /\ FetchIteration(resp)
        /\ UNCHANGED <<dbVars, run>>

NextFetchLive ==
    \/ \E bp \in ParamSets :
          requests < MaxRequests /\ FetchCall(bp) /\ UNCHANGED <<dbVars, run>>
    \/ FullPageAnswer
    \/ OtherAnswer

SpecFetchLive == InitFetch /\ [][NextFetchLive]_vars /\ WF_vars(OtherAnswer)

\* The reconcilers called in any order on one connection.
InitDb == FetchAtRest /\ InitStore

NextDb ==
    \/ calls < MaxCalls /\ \E g \in GameInputs : GetOrCreateGame(g)
    \/ calls < MaxCalls /\ \E a \in TeamInputs : GetOrCreateTeam(a)
    \/ calls < MaxCalls /\ \E a \in PlayerInputs : GetOrCreatePlayer(a)
    \/ calls < MaxCalls /\ \E a \in TournamentInputs : GetOrCreateTournament(a)
    \/ Commit
    \/ Rollback

SpecDb == InitDb /\ [][NextDb]_vars

\* The reconcilers called with what a feed may carry: the keys of KeyInputs
\* with no attribute supplied and, for the column the server checks the value
\* of, no value, a value it takes, or a value it refuses.
FeedPlayerInputs ==
    { [a EXCEPT !.birth_date = written] :
        a \in {x \in PlayerInputs : x.status = None},
        written \in {None, Some(<<1990, 1, 1>>), Some(<<1995, 0, 0>>)} }

FeedTournamentInputs ==
    { [a EXCEPT !.prize_pool = value] :
        a \in {x \in TournamentInputs : x.end_date = None},
        value \in {None, Some([number |-> 1000]), Some([text |-> "TBD"])} }

NextFeed ==
    \/ calls < MaxFeedCalls /\ \E g \in GameInputs : GetOrCreateGame(g)
    \/ calls < MaxFeedCalls /\ \E a \in {x \in TeamInputs : x.region = None} :
                                  GetOrCreateTeam(a)
    \/ calls < MaxFeedCalls /\ \E a \in FeedPlayerInputs : GetOrCreatePlayer(a)
    \/ calls < MaxFeedCalls /\ \E a \in FeedTournamentInputs : GetOrCreateTournament(a)
    \/ Commit
    \/ Rollback

SpecFeed == InitDb /\ [][NextFeed]_vars

\* Tournaments are stored, then match series are resolved against them.
NextResolve ==
    \/ \E a \in ResolverTournamentInputs :
          /\ calls < MaxResolveCalls
          /\ Cardinality(db.tournaments) < MaxTournaments
             \/ SelectTournament(db, IF a.tournament_name = None THEN a.api_pagename[1]
                                     ELSE a.tournament_name[1],
                                 a.game_id[1], a.start_date) # {}
          /\ GetOrCreateTournament(a)
    \/ calls < MaxResolveCalls /\ \E q \in Queries : FindTournamentIdForMatch(q)

SpecResolve == InitDb /\ [][NextResolve]_vars

\* Tournaments "Major X" and "Major X: Playoffs" of cs2 are stored, as many as
\* the calls allow, then match series are resolved against them.
NextOverlap ==
    \/ calls < MaxOverlapCalls /\
          \E a \in {x \in ResolverTournamentInputs :
                       /\ x.game_id = Some("cs2")
                       /\ x.tournament_name \in {Some(MajorX), Some(MajorXPlayoffs)}} :
              GetOrCreateTournament(a)
    \/ calls < MaxOverlapCalls /\ \E q \in Queries : FindTournamentIdForMatch(q)

SpecOverlap == InitDb /\ [][NextOverlap]_vars

\* Rows are reconciled, then batches that refer to them are bulk-loaded.
NextBulk ==
    \/ calls < MaxBulkCalls /\ \E a \in BulkTeamInputs : GetOrCreateTeam(a)
    \/ calls < MaxBulkCalls /\ \E a \in BulkPlayerInputs : GetOrCreatePlayer(a)
    \/ calls < MaxBulkCalls /\ \E a \in BulkTournamentInputs : GetOrCreateTournament(a)
    \/ calls < MaxBulkCalls /\ \E b \in BulkInputs : BulkInsertData(b)
    \/ Commit
    \/ Rollback

SpecBulk == InitDb /\ [][NextBulk]_vars

\* Test rows are stored and joined by roster entries, then cleaned up.  The
\* test game is stored from the start.
InitTestData ==
    /\ FetchAtRest
    /\ db = get_or_create_game(EmptyStore, TEST_GAME_ID, "CS:GO").db
    /\ committed = Tables(db)
    /\ last = NoCall
    /\ calls = 0
    /\ run = CleanupAtRest

NextTestData ==
    \/ /\ calls < MaxTestCalls
       /\ run.asked = None
       /\ \E a \in TestTeamInputs : GetOrCreateTeam(a)
    \/ /\ calls < MaxTestCalls
       /\ run.asked = None
       /\ \E a \in TestPlayerInputs : GetOrCreatePlayer(a)
    \/ calls < MaxTestCalls /\ \E a \in RosterInputs : UpsertRosterEntry(a)
    \/ UpsertRosterEntryResumes
    \/ CommitTestData
    \/ RollbackTestData
    \/ SelectTestTeam
    \/ SelectTestPlayer
    \/ DeleteRostersOfTestTeam
    \/ DeleteRostersOfTestPlayers
    \/ DeleteTestPlayers
    \/ DeleteTestTeam
    \/ CleanupDeletesRow
    \/ CleanupCommit
    \/ DeadlockDetected

SpecTestData == InitTestData /\ [][NextTestData]_vars

(***************************************************************************)
(* Properties of the fetch client.                                         *)
(***************************************************************************)
RECURSIVE ConcatPages(_)
\* The pages of the answers in a log, one after the other.
ConcatPages(entries) ==
    IF entries = <<>> THEN <<>>
    ELSE ConcatPages(SubSeq(entries, 1, Len(entries) - 1)) \o entries[Len(entries)].page

\* The answers that carried a "result" list.
OkEntries(entries) == SelectSeq(entries, LAMBDA e : e.kind = "ok")

IsFullPage(e) == e.kind = "ok" /\ Len(e.page) = e.limit

IsPartialPage(e) == e.kind = "ok" /\ Len(e.page) > 0 /\ Len(e.page) < e.limit

\* A page that ends pagination: failed, empty, or shorter than the page size.
IsTerminal(e) == e.kind # "ok" \/ Len(e.page) < e.limit

\* The current call is fetch_all and was answered k full pages, then a partial one.
FullThenPartial ==
    /\ op = "fetch_all"
    /\ Len(log) >= 1
    /\ \A i \in 1..(Len(log) - 1) : IsFullPage(log[i])
    /\ IsPartialPage(log[Len(log)])

\* C1: a fetch_all call answered k full pages followed by one non-empty page
\* shorter than the page size has returned, made exactly those k+1 requests, and
\* returned the concatenation of the k+1 pages in fetch order.
C1_FullPagesThenPartial ==
    FullThenPartial =>
        /\ pc = "done"
        /\ attempts = Len(log)
        /\ ~ret.none
        /\ ret.items = ConcatPages(log)

\* Page sizes [limit, limit, partial] with limit 2.
C1_Witness ==
    /\ FullThenPartial
    /\ pc = "done"
    /\ Len(log) = 3
    /\ limit_per_page = 2
    /\ Len(ret.items) = 5

\* How every loader tells the outcomes of fetch_all apart
\* ("if data is None: ... continue" / "if not data: ... continue").
LoaderView(r) ==
    IF r.none THEN "failed" ELSE IF r.items = <<>> THEN "empty" ELSE "records"

\* The call of fetch_all has returned after a request of it failed.
FetchFailed ==
    /\ op = "fetch_all"
    /\ pc = "done"
    /\ Len(log) >= 1
    /\ log[Len(log)].kind # "ok"

\* C2: when a request of a fetch_all call fails, the value returned is a failure
\* sentinel that the caller tells apart from an empty and from a successful result.
C2_FailureReturnsSentinel == FetchFailed => LoaderView(ret) = "failed"

\* C3: every request put on the wire is followed by one rate-limit pause before
\* control returns: N requests, N pauses, at least N times the delay elapsed.
C3_PauseAfterEveryRequest ==
    /\ sleeps = requests
    /\ elapsed >= requests * API_REQUEST_DELAY

\* C4: within a fetch_all call no request follows a page that is empty, short or
\* failed, and only the pages that carried a non-empty result list are accumulated.
C4_StopsAtTerminalPage ==
    op = "fetch_all" =>
        /\ \A i \in 1..Len(log) : IsTerminal(log[i]) => (i = Len(log) /\ pc = "done")
        /\ all_records = ConcatPages(OkEntries(log))
        /\ pc = "done" => ret.items = all_records

\* A full page, then a failed answer whose body carries records.
C4_Witness ==
    /\ op = "fetch_all"
    /\ pc = "done"
    /\ Len(log) = 2
    /\ IsFullPage(log[1])
    /\ log[2].kind = "http_error"
    /\ Len(log[2].page) > 0
    /\ Len(all_records) = log[1].limit

\* The configuration is unusable: no partition key, or the API key is the placeholder.
ConfigurationError ==
    \/ base_params.wiki = Missing
    \/ base_params.wiki = ""
    \/ API_KEY = PLACEHOLDER_KEY

\* C5: with the 'wiki' parameter missing or empty, or the placeholder API key, the
\* call ends without any request on the wire and without a second attempt; no data
\* is returned.
C5_ConfigurationErrorAborts ==
    /\ API_KEY = PLACEHOLDER_KEY => requests = 0
    /\ (op # "none" /\ ConfigurationError) =>
          /\ log = <<>>
          /\ attempts <= 1
          /\ attempts = 1 => pc = "done"
          /\ pc = "done" => ret.items = <<>>

\* fetch_all with a partition key and the placeholder API key has given up after
\* one attempt.
C5_Witness ==
    /\ op = "fetch_all"
    /\ pc = "done"
    /\ API_KEY = PLACEHOLDER_KEY
    /\ base_params.wiki = "counterstrike"
    /\ attempts = 1

(***************************************************************************)
(* Properties of the reconcilers.                                          *)
(***************************************************************************)
ReconcileKinds == {"team", "player", "tournament"}

\* The reconciler a call record names, applied to a store.
Reconcile(kind, d, a) ==
    CASE kind = "team" -> get_or_create_team(d, a)
      [] kind = "player" -> get_or_create_player(d, a)
      [] kind = "tournament" -> get_or_create_tournament(d, a)

\* The name a call is keyed by: the name given, or else the page name.
GivenName(kind, a) ==
    CASE kind = "team" -> a.team_name
      [] kind = "player" -> a.player_nickname
      [] kind = "tournament" -> a.tournament_name

KeyName(kind, a) ==
    IF GivenName(kind, a) # None /\ GivenName(kind, a) # Some(<<>>)
    THEN GivenName(kind, a) ELSE a.api_pagename

\* A key input is missing: no game, no name and no page name, or no start date.
KeyMissing(kind, a) ==
    \/ a.game_id = None
    \/ KeyName(kind, a) = None
    \/ KeyName(kind, a) = Some(<<>>)
    \/ kind = "tournament" /\ a.start_date = None

\* The rows of a store that bear the natural key of a call.
RowsWithKey(kind, d, a) ==
    CASE kind = "team" ->
            {r \in d.teams : r.team_name = KeyName(kind, a)[1] /\ r.game_id = a.game_id[1]}
      [] kind = "player" ->
            {r \in d.players :
                r.player_nickname = KeyName(kind, a)[1] /\ r.game_id = a.game_id[1]}
      [] kind = "tournament" ->
            {r \in d.tournaments :
                /\ r.tournament_name = KeyName(kind, a)[1]
                /\ r.game_id = a.game_id[1]
                /\ r.start_date = a.start_date}

RowsOf(kind, d) ==
    CASE kind = "team" -> d.teams
      [] kind = "player" -> d.players
      [] kind = "tournament" -> d.tournaments

RowId(kind, r) ==
    CASE kind = "team" -> r.team_id
      [] kind = "player" -> r.player_id
      [] kind = "tournament" -> r.tournament_id

\* C6: after a team, player or tournament has been reconciled, reconciling the
\* same natural key with the same attributes once more returns the same identifier,
\* adds no row, and leaves exactly one row with that natural key.
C6_ReconcileTwice ==
    (last.kind \in ReconcileKinds /\ ~last.raised /\ last.ret # None) =>
        LET again == Reconcile(last.kind, db, last.args)
        IN  /\ ~again.raised
            /\ again.ret = last.ret
            /\ Cardinality(RowsWithKey(last.kind, again.db, last.args)) = 1
            /\ Cardinality(RowsOf(last.kind, again.db)) = Cardinality(RowsOf(last.kind, db))
            /\ \A r \in RowsWithKey(last.kind, again.db, last.args) :
                  Some(RowId(last.kind, r)) = last.ret

\* A committed team has been reconciled again with the attributes it has.
C6_Witness ==
    /\ last.kind = "team"
    /\ ~last.raised
    /\ last.args.region # None
    /\ \E r \in committed.teams :
          /\ r \in db.teams
          /\ last.ret = Some(r.team_id)
          /\ last.args.region = r.region
          /\ last.args.location = r.location
          /\ last.args.is_disbanded = r.is_disbanded

\* The optional attributes of a call, as <<argument, column>> pairs.
Attributes(kind) ==
    CASE kind = "team" ->
            {<<"region", "region">>, <<"location", "location">>,
             <<"is_disbanded", "is_disbanded">>}
      [] kind = "player" ->
            {<<"birth_date", "birth_date">>, <<"nationality", "nationality">>,
             <<"status", "status">>, <<"current_role", "curr_role">>, <<"type", "type">>}
      [] kind = "tournament" ->
            {<<"tier", "tier">>, <<"end_date", "end_date">>, <<"type_val", "type">>,
             <<"region", "region">>, <<"location", "location">>,
             <<"prize_pool", "prize_pool">>, <<"tournament_weight", "tournament_weight">>}

KeyColumns(kind) ==
    CASE kind = "team" -> {"team_id", "team_name", "game_id"}
      [] kind = "player" -> {"player_id", "player_nickname", "game_id"}
      [] kind = "tournament" -> {"tournament_id", "tournament_name", "game_id", "start_date"}

\* This step is a call of a reconciler.
ReconcileStep == calls' = calls + 1 /\ last'.kind \in ReconcileKinds

\* This step reconciles a natural key that a row of the store bears already.
ReconcileExisting ==
    /\ ReconcileStep
    /\ ~db.failed
    /\ ~KeyMissing(last'.kind, last'.args)
    /\ RowsWithKey(last'.kind, db, last'.args) # {}

\* What a step that reconciles an existing key does.
UpdatesOnlySupplied ==
    LET kind == last'.kind
        a == last'.args
    IN  \E old \in RowsWithKey(kind, db, a) :
        \E new \in RowsOf(kind, db') :
            /\ ~last'.raised
            /\ last'.ret = Some(RowId(kind, old))
            /\ \A c \in KeyColumns(kind) : new[c] = old[c]
            /\ \A p \in Attributes(kind) :
                  new[p[2]] = IF a[p[1]] # None THEN a[p[1]] ELSE old[p[2]]
            /\ RowsOf(kind, db') \ {new} = RowsOf(kind, db) \ {old}
            /\ Cardinality(RowsOf(kind, db')) = Cardinality(RowsOf(kind, db))
            /\ \A k \in ReconcileKinds \ {kind} : RowsOf(k, db') = RowsOf(k, db)
            /\ db'.games = db.games

\* C7: reconciling a natural key that exists creates no row, returns the existing
\* identifier, sets the supplied attributes to the supplied values, and leaves
\* unchanged the attributes passed as absent, the key columns and every other row.
C7_UpdateChangesOnlySupplied == [][ReconcileExisting => UpdatesOnlySupplied]_vars

\* A committed team of region Europe and location France has been reconciled with
\* region Americas alone: same identifier, new region, old location.
C7_Witness ==
    /\ last.kind = "team"
    /\ last.args.region = Some("Americas")
    /\ last.args.location = None
    /\ \E old \in committed.teams :
       \E new \in db.teams :
          /\ last.ret = Some(old.team_id)
          /\ new.team_id = old.team_id
          /\ old.region = Some("Europe")
          /\ new.region = Some("Americas")
          /\ old.location = Some("France")
          /\ new.location = Some("France")
          /\ Cardinality(db.teams) = Cardinality(committed.teams)

\* A call with a missing key input returns None, does not raise, touches nothing.
MissingKeyReturnsAbsent ==
    (ReconcileStep /\ KeyMissing(last'.kind, last'.args)) =>
        /\ last'.ret = None
        /\ ~last'.raised
        /\ db' = db

\* This step reconciles a complete natural key that no row of the store bears.
ReconcileNotFound ==
    /\ ReconcileStep
    /\ ~KeyMissing(last'.kind, last'.args)
    /\ RowsWithKey(last'.kind, db, last'.args) = {}

\* The call inserted one row with the key, and returned its new identifier.
InsertsAndReturnsNew ==
    /\ ~last'.raised
    /\ last'.ret # None
    /\ \E new \in RowsWithKey(last'.kind, db', last'.args) :
          /\ last'.ret = Some(RowId(last'.kind, new))
          /\ RowsOf(last'.kind, db') = RowsOf(last'.kind, db) \cup {new}
          /\ \A r \in RowsOf(last'.kind, db) : RowId(last'.kind, r) # RowId(last'.kind, new)

\* The call carries a value the server refuses for its column: a birth date
\* that is no day of the calendar, a prize pool that is a text.
CarriesRefusedValue ==
    \/ last'.kind = "player" /\ last'.args.birth_date = Some(<<1995, 0, 0>>)
    \/ last'.kind = "tournament" /\ last'.args.prize_pool = Some([text |-> "TBD"])

\* The game of the call is stored, no statement of the transaction has failed,
\* and the server takes the values of the call.
CanInsert ==
    /\ ~db.failed
    /\ \E g \in db.games : Some(g.game_id) = last'.args.game_id
    /\ ~CarriesRefusedValue

\* The call raised: it returned nothing, wrote no row, and the transaction is
\* aborted.
RaisedWritingNothing ==
    /\ last'.raised
    /\ last'.ret = None
    /\ Tables(db') = Tables(db)
    /\ db'.failed

\* C8 as stated: a call with a missing key input returns the absent identifier
\* without raising and without touching a row; a call that finds no row with the
\* key never raises: it inserts and returns the new identifier.
C8_NotFoundNeverRaises ==
    [][MissingKeyReturnsAbsent /\ (ReconcileNotFound => InsertsAndReturnsNew)]_vars

\* What is left of the second half of C8 when the call is well formed: a call
\* for a stored game, with values the server takes, that finds no row with the
\* key never raises.
WellFormedNotFoundNeverRaises ==
    [][(/\ ReconcileNotFound
        /\ \E g \in db.games : Some(g.game_id) = last'.args.game_id
        /\ ~CarriesRefusedValue) => InsertsAndReturnsNew]_vars

\* C8, amended: a call with a missing key input returns the absent identifier
\* without raising and without touching a row.  A call on the one connection
\* with a complete key that no row bears inserts and returns the new identifier
\* when its game is a stored game, the server takes its values, and no earlier
\* statement of the open transaction has failed; in every other case it raises,
\* writes no row and leaves the transaction aborted.
C8_NotFoundInsertsOrRaises ==
    [][/\ MissingKeyReturnsAbsent
       /\ ReconcileNotFound =>
             IF CanInsert THEN InsertsAndReturnsNew ELSE RaisedWritingNothing]_vars

\* Player "Alpha" of cs2 was not stored and the call for it, with a birth date
\* the server takes, inserted it; the call for player "Beta" of cs2, not stored
\* either, with a birth date the server refuses, raised and stored nothing.
C8_Witness ==
    /\ last.kind = "player"
    /\ last.raised
    /\ last.args.birth_date = Some(<<1995, 0, 0>>)
    /\ last.args.game_id = Some("cs2")
    /\ last.args.api_pagename = Some(<<"Beta">>)
    /\ db.failed
    /\ Cardinality(db.players) = 1
    /\ \E r \in db.players :
          /\ r.player_nickname = <<"Alpha">>
          /\ r.birth_date = Some(<<1990, 1, 1>>)
          /\ r.player_id = 1
    /\ db.seq.players = 2

(***************************************************************************)
(* Properties of the tournament resolver.                                  *)
(***************************************************************************)
\* The last call asked for tournament T by its exact name and game, with a date.
ExactQuery(T) ==
    /\ last.kind = "find"
    /\ last.args.date # None
    /\ last.args.raw = Some(T.tournament_name)
    /\ last.args.game_id = Some(T.game_id)

\* No other stored tournament has T's name and game.
OnlyOneNamed(T) ==
    \A o \in db.tournaments :
        (o.tournament_name = T.tournament_name /\ o.game_id = T.game_id) => o = T

\* C9: for a stored tournament T with window [S, E], the only one of its name and
\* game, find_tournament_id_for_match called with T's exact name, T's game and a
\* date d with S <= d <= E returns T's identifier.
C9_ExactNameInsideWindow ==
    \A T \in db.tournaments :
        ( /\ ExactQuery(T)
          /\ OnlyOneNamed(T)
          /\ T.start_date[1] <= last.args.date[1]
          /\ last.args.date[1] <= T.end_date[1] )
        => last.ret = Some(T.tournament_id)

\* No other stored tournament of T's game bears T's name or a name the resolver
\* derives from it.
NoOtherMatching(T) ==
    \A o \in db.tournaments \ {T} :
        o.game_id = T.game_id =>
            /\ o.tournament_name # T.tournament_name
            /\ ~InSeq(o.tournament_name, SearchNames(Cleaned(T.tournament_name)))

\* The last call asked for T by its exact name and game, one day after its window.
DayAfterWindow(T) ==
    /\ ExactQuery(T)
    /\ NoOtherMatching(T)
    /\ last.args.date[1] = T.end_date[1] + 1

\* C10 as stated: with no other stored tournament matching, the call with T's exact
\* name, T's game and the day after T's end date returns absent.
C10_DayAfterWindowAbsent ==
    \A T \in db.tournaments : DayAfterWindow(T) => last.ret = None

\* C10, amended: with no other stored tournament matching, the call with T's exact
\* name, T's game and the day after T's end date returns T's identifier, found by
\* the name-only fallback, when T's stored name is the name as the resolver cleans
\* it, and absent otherwise.
C10_DayAfterWindowFallsBack ==
    \A T \in db.tournaments :
        DayAfterWindow(T) =>
            last.ret = IF Cleaned(T.tournament_name) = T.tournament_name
                       THEN Some(T.tournament_id) ELSE None

\* The day after its window the only stored tournament was asked for, and found.
C10_Witness ==
    \E T \in db.tournaments :
        /\ DayAfterWindow(T)
        /\ db.tournaments = {T}
        /\ T.end_date[1] > T.start_date[1]
        /\ last.ret = Some(T.tournament_id)

\* The last call was made with a name, a game and a date.
CompleteQuery ==
    /\ last.kind = "find"
    /\ last.args.raw # None
    /\ last.args.game_id # None
    /\ last.args.date # None

\* Stage suffixes of the catalogue that match records carry.
StageSuffixes == { <<":", " ", "Playoffs">>, <<" ", "stage", " ", "2">> }

\* The last call asked, with a date inside T's window, for a stage of T, the only
\* stored tournament of its name and game, the stage itself not being stored.
StageOfParentQuery(T) ==
    /\ CompleteQuery
    /\ \E suffix \in StageSuffixes : last.args.raw = Some(T.tournament_name \o suffix)
    /\ last.args.game_id = Some(T.game_id)
    /\ T.start_date[1] <= last.args.date[1]
    /\ last.args.date[1] <= T.end_date[1]
    /\ OnlyOneNamed(T)
    /\ \A o \in db.tournaments :
          ~(Some(o.tournament_name) = last.args.raw /\ o.game_id = T.game_id)

\* C11: asked for a stored tournament's name followed by a catalogued stage
\* suffix, with the tournament's game and a date inside its window, and no row
\* stored under the stage-qualified name, find_tournament_id_for_match returns the
\* parent tournament's identifier.
C11_StageNameFindsParent ==
    \A T \in db.tournaments :
        StageOfParentQuery(T) => last.ret = Some(T.tournament_id)

\* C11 for the parents whose stored name the resolver's cleaning leaves as it is.
StageOfCleanParentFound ==
    \A T \in db.tournaments :
        (StageOfParentQuery(T) /\ Strip(ReplaceUnderscores(T.tournament_name)) = T.tournament_name)
            => last.ret = Some(T.tournament_id)

\* The candidate names of every raw name a call is made with, in the order they
\* are tried.
CandidatesOf ==
    [raw \in {q.raw[1] : q \in {x \in Queries : x.raw # None}} |->
        SearchNames(Strip(ReplaceUnderscores(raw)))]

\* The candidate names of the last call, in the order they are tried.
Candidates == CandidatesOf[last.args.raw[1]]

\* The stored tournaments of the asked game, bearing a name, whose window contains
\* the asked date.
MatchesOf(name) ==
    {r \in db.tournaments :
        /\ r.tournament_name = name
        /\ r.game_id = last.args.game_id[1]
        /\ r.start_date[1] <= last.args.date[1]
        /\ last.args.date[1] <= r.end_date[1]}

\* The last call had a name to search for.
SearchedQuery ==
    /\ CompleteQuery
    /\ last.args.raw # Some(<<>>)
    /\ Strip(ReplaceUnderscores(last.args.raw[1])) # <<>>

\* C12 as stated: when a candidate name has two or more stored tournaments of
\* the asked game whose windows contain the date, the call returns the one of
\* them with the latest start date.
C12_LatestStartOfAnyCandidate ==
    SearchedQuery =>
        \A i \in 1..Len(Candidates) :
            Cardinality(MatchesOf(Candidates[i])) >= 2
            => \E r \in MatchesOf(Candidates[i]) :
                  /\ last.ret = Some(r.tournament_id)
                  /\ \A o \in MatchesOf(Candidates[i]) : o.start_date[1] <= r.start_date[1]

\* C12, amended: the first candidate name, in the order they are tried, that
\* has a stored tournament of the asked game whose window contains the date
\* decides the call; when it has two or more of them, the call returns the one
\* of them with the latest start date, and when it has one, that one, whatever
\* the candidates after it have.
C12_LatestStartWins ==
    SearchedQuery =>
        \A i \in 1..Len(Candidates) :
            ( /\ MatchesOf(Candidates[i]) # {}
              /\ \A j \in 1..(i - 1) : MatchesOf(Candidates[j]) = {} )
            => \E r \in MatchesOf(Candidates[i]) :
                  /\ last.ret = Some(r.tournament_id)
                  /\ \A o \in MatchesOf(Candidates[i]) : o.start_date[1] <= r.start_date[1]

\* "Major X: Playoffs" and two tournaments named "Major X" are stored, all three
\* with day 2 in their windows; asked for "Major X: Playoffs" on day 2, the call
\* returned the stage, and neither of the two named "Major X".
OverlapUnderLaterCandidate ==
    /\ SearchedQuery
    /\ last.args.raw = Some(MajorXPlayoffs)
    /\ last.args.date = Some(2)
    /\ Cardinality(MatchesOf(MajorX)) = 2
    /\ \E r \in MatchesOf(MajorXPlayoffs) : last.ret = Some(r.tournament_id)

\* Two tournaments named "Major X" with windows [1, 2] and [2, 3] are stored; asked
\* for a stage of "Major X" on day 2, the call returned the one that starts on day 2.
C12_Witness ==
    /\ SearchedQuery
    /\ last.args.raw = Some(MajorXPlayoffs)
    /\ last.args.date = Some(2)
    /\ Cardinality(MatchesOf(MajorX)) = 2
    /\ \E r \in MatchesOf(MajorX) :
          /\ r.start_date = Some(2)
          /\ last.ret = Some(r.tournament_id)

\* No candidate name of the last call has a containment match, and no stored
\* tournament of the asked game bears the first candidate name.
NothingMatches ==
    /\ \A i \in 1..Len(Candidates) : MatchesOf(Candidates[i]) = {}
    /\ \A r \in db.tournaments :
          ~(r.tournament_name = Candidates[1] /\ r.game_id = last.args.game_id[1])

\* C13: find_tournament_id_for_match does not raise, and it returns absent when
\* the name, the game or the date is missing, when the name is blank, and when no
\* candidate name has a containment match and the name-only fallback finds no row.
C13_NoMatchReturnsAbsent ==
    last.kind = "find" =>
        /\ ~last.raised
        /\ ~SearchedQuery => last.ret = None
        /\ (SearchedQuery /\ NothingMatches) => last.ret = None

\* "Major X" is stored for one game only; asked for its stage in the other game,
\* the call returned absent.
C13_Witness ==
    /\ SearchedQuery
    /\ NothingMatches
    /\ last.args.raw = Some(MajorXPlayoffs)
    /\ \E r \in db.tournaments :
          /\ r.tournament_name = MajorX
          /\ r.game_id # last.args.game_id[1]
          /\ r.start_date[1] <= last.args.date[1]
          /\ last.args.date[1] <= r.end_date[1]
    /\ last.ret = None
    /\ ~last.raised

(***************************************************************************)
(* Properties of the stored tournaments.                                   *)
(***************************************************************************)
\* C14: after any sequence of get_or_create_tournament calls, every stored
\* tournament that has a start date and an end date starts no later than it ends.
C14_StartNotAfterEnd ==
    \A r \in db.tournaments :
        (r.start_date # None /\ r.end_date # None) => r.start_date[1] <= r.end_date[1]

(***************************************************************************)
(* Properties of bulk_insert_data.                                         *)
(***************************************************************************)
\* The last call was bulk_insert_data.
BulkCalled == last.kind = "bulk"

\* Some record of the batch is not a dict: its row cannot be built.
HasUnpreparable(data_list) == \E i \in 1..Len(data_list) : ~data_list[i].is_dict

\* C15: when a record of the batch given to bulk_insert_data cannot be turned
\* into a row, the call raises (and so never returns a count after leaving
\* that record out).
C15_UnpreparableRowFailsBatch ==
    (BulkCalled /\ HasUnpreparable(last.args.data_list)) => last.raised

\* A batch with a record that is not a dict returned a count, and a row of
\* the other records is stored.
PartialBatchStored ==
    /\ BulkCalled
    /\ HasUnpreparable(last.args.data_list)
    /\ ~last.raised
    /\ last.ret = Some(Len(last.args.data_list) - 1)
    /\ db[TableField(last.args.table_name)] # committed[TableField(last.args.table_name)]

\* The keys of the dicts of a batch, as the table sees them.
BatchKeys(b) ==
    { RowKey(b.table_name, b.data_list[i]) :
        i \in {j \in 1..Len(b.data_list) : b.data_list[j].is_dict} }

\* The keys stored in the table the batch is for.
StoredKeys(d, b) == { RowKey(b.table_name, x) : x \in d[TableField(b.table_name)] }

\* The step is a call of bulk_insert_data.
BulkStep == calls' = calls + 1 /\ last'.kind = "bulk"

\* C16: bulk_insert_data leaves what is committed as it was, and when it
\* returns the keys of its batch are in the open transaction; a commit of a
\* transaction that is not aborted makes the tables of the transaction the
\* committed ones; a rollback leaves the bulk-loaded tables as committed.
C16_BulkNeverCommits ==
    [][ /\ BulkStep =>
             /\ committed' = committed
             /\ ~last'.raised /\ last'.ret # Some(0)
                    => BatchKeys(last'.args) \subseteq StoredKeys(db', last'.args)
        /\ (last'.kind = "commit" /\ ~db.failed) =>
             /\ committed'.series = db.series
             /\ committed'.rosters = db.rosters
        /\ last'.kind = "rollback" =>
             /\ db'.series = committed.series
             /\ db'.rosters = committed.rosters ]_vars

\* A batch has been loaded and its rows are in the open transaction only.
C16_Witness ==
    /\ BulkCalled
    /\ ~last.raised
    /\ last.ret = Some(2)
    /\ BatchKeys(last.args) \subseteq StoredKeys(db, last.args)
    /\ BatchKeys(last.args) \cap StoredKeys(committed, last.args) = {}

(***************************************************************************)
(* The loader scripts 02 to 06.  Each one walks SUPPORTED_GAMES in order    *)
(* on one connection: it fetches the game's records, works through them     *)
(* one by one, and ends the game.  What a record carries is decided when    *)
(* the loader reaches it: it maps to arguments ("ok"), it lacks a field     *)
(* the loader needs and is passed over ("skip"), or it carries a value the  *)
(* database refuses (a birth date that is no date, say: "refused").  A     *)
(* squad entry names its team by "pagename" and its player by "id" and has  *)
(* neither "newteam" nor "link", "nationality" or "type".  A match is one   *)
(* of tournament "Alpha", played on day 1 between the team the record names *)
(* and team "Alpha", unless it names a tournament or a second opponent that *)
(* no script has stored ("Gamma").                                          *)
(***************************************************************************)
LoaderScripts == {"02", "03", "04", "05", "06"}

\* SUPPORTED_GAMES.items(), in the order of the dict.
GameOrder ==
    << [game_id |-> "cs2", name |-> "Counter-Strike 2", liquipedia_wiki |-> "counterstrike"],
       [game_id |-> "valorant", name |-> "Valorant", liquipedia_wiki |-> "valorant"] >>

\* What the record may be.  05 stores the team of a squad entry before it looks
\* at the player, and the player before it looks at the rest, so for 05 an
\* entry may also lack the player id ("noplayer"), make the call for the
\* player raise ("refusedplayer"), be that of a coach ("staff"), or lack the
\* join date ("nojoin").  06 writes nothing while it maps: a match may lack
\* its id ("skip"), name a tournament or a second opponent that is not stored
\* ("notournament", "noopponent2"), or lack "bestof" ("nobestof").
ItemKinds(script) ==
    IF script = "05"
    THEN {"ok", "skip", "refused", "noplayer", "refusedplayer", "staff", "nojoin"}
    ELSE IF script = "06"
    THEN {"ok", "skip", "notournament", "noopponent2", "nobestof"}
    ELSE {"ok", "skip", "refused"}

\* The name a fetched record carries: the records of a page are named in turn.
ItemName(rec) == << IF rec[2] % 2 = 1 THEN "Alpha" ELSE "Beta" >>

\* The match id a fetched match carries.
ItemMatchId(rec) == IF rec[2] % 2 = 1 THEN "m1" ELSE "m2"

\* The series score a fetched match carries for its first opponent: the feed
\* may give the same match again, with another score, on a later page.
ItemScore(rec) == rec[1]

\* A statement of the call is refused by the server: the call raises, and the
\* transaction is aborted.
StatementRefused(d) == IF d.failed THEN Raises(d) ELSE Raises(Abort(d))

\* get_team_id_by_name: a lookup that gives None for whatever goes wrong.
get_team_id_by_name(d, team_name, game_id) ==
    IF ~TruthyName(team_name) \/ ~TruthyId(game_id) THEN None
    ELSE IF d.failed THEN None
    ELSE LET found == SelectTeam(d, team_name[1], game_id[1])
         IN  IF found = {} THEN None ELSE Some((CHOOSE r \in found : TRUE).team_id)

\* truncate_team_rosters_for_game: the roster rows of the game's teams go.
truncate_team_rosters_for_game(d, game_id) ==
    IF d.failed THEN Raises(d)
    ELSE LET teams_in_game == {t.team_id : t \in {x \in d.teams : x.game_id = game_id}}
             gone == {r \in d.rosters : r.team_id[1] \in teams_in_game}
         IN  Returns([d EXCEPT !.rosters = @ \ gone], Some(Cardinality(gone)))

\* The arguments the loaders pass for a record of a game.
LoadTeamArgs(rec, game_id) ==
    [team_name |-> Some(ItemName(rec)), api_pagename |-> Some(ItemName(rec)),
     game_id |-> Some(game_id), region |-> None, location |-> None,
     is_disbanded |-> Some(FALSE)]

\* 03 passes the birth date as the feed writes it: the refused record writes
\* "1995-00-00", the others none.
LoadPlayerArgs(rec, game_id, kind) ==
    [player_nickname |-> Some(ItemName(rec)), api_pagename |-> Some(ItemName(rec)),
     game_id |-> Some(game_id),
     birth_date |-> IF kind = "refused" THEN Some(<<1995, 0, 0>>) ELSE None,
     nationality |-> None,
     status |-> Some("Active"), current_role |-> None, type |-> Some("Player")]

\* The arguments 05 passes for a squad entry: the team under its cleaned page
\* name; the player as "active", with the role of the entry ("" when it has
\* none) and, the entry having no type, as a "Player".
RosterTeamArgs(rec, game_id) ==
    [team_name |-> Some(Cleaned(ItemName(rec))), api_pagename |-> Some(ItemName(rec)),
     game_id |-> Some(game_id), region |-> None, location |-> None,
     is_disbanded |-> Some(FALSE)]

RosterPlayerArgs(rec, game_id, kind) ==
    [player_nickname |-> Some(ItemName(rec)), api_pagename |-> None,
     game_id |-> Some(game_id), birth_date |-> None, nationality |-> None,
     status |-> Some("active"),
     current_role |-> Some(IF kind = "staff" THEN "Coach" ELSE ""),
     type |-> Some("Player")]

\* 04 passes the prize pool as the feed gives it (the refused record gives the
\* text "TBD", the others none) and the weight it has calculated: 7.0 for a
\* record without tier and without a prize that is a number,
\* DEFAULT_TIER_SCORE (10) times TIER_WEIGHT_FACTOR (0.70).
LoadTournamentArgs(rec, game_id, kind) ==
    [tournament_name |-> Some(ItemName(rec)), api_pagename |-> Some(ItemName(rec)),
     game_id |-> Some(game_id), start_date |-> Some(1), end_date |-> Some(2),
     tier |-> None, type_val |-> None, region |-> None, location |-> None,
     prize_pool |-> IF kind = "refused" THEN Some([text |-> "TBD"]) ELSE None,
     tournament_weight |-> Some(7)]

\* The match record of a kind, as far as the mapping reads it.
MatchRecord(rec, kind) ==
    [match2id |-> IF kind = "skip" THEN None ELSE Some(ItemMatchId(rec)),
     date |-> Some(1),
     tournament |-> Some(IF kind = "notournament" THEN <<"Gamma">> ELSE <<"Alpha">>),
     opponents |-> << Some(ItemName(rec)),
                      Some(IF kind = "noopponent2" THEN <<"Gamma">> ELSE <<"Alpha">>) >>,
     score |-> ItemScore(rec),
     bestof |-> IF kind = "nobestof" THEN None ELSE Some(3)]

\* A faulty variant of map_api_match_to_db_series: a match is mapped to a row
\* whether or not its opponents are found.
map_api_match_to_db_series_KeepingTeamless(d, api_match_data, game_id) ==
    IF api_match_data.match2id = None \/ api_match_data.date = None THEN {None}
    ELSE
    { IF db_tournament_id = None \/ api_match_data.bestof = None THEN None
      ELSE Some([is_dict |-> TRUE, series_lp_matchid |-> api_match_data.match2id,
                 tournament_id |-> db_tournament_id, game_id |-> Some(game_id),
                 team1_id |-> team1_id, team2_id |-> team2_id,
                 team1_series_score |-> Some(api_match_data.score)]) :
        db_tournament_id \in
            find_tournament_id_for_match(d, api_match_data.tournament, Some(game_id),
                                         api_match_data.date),
        team1_id \in {get_team_id_by_name(d, Some(Cleaned(api_match_data.opponents[1][1])),
                                          Some(game_id))},
        team2_id \in {get_team_id_by_name(d, Some(Cleaned(api_match_data.opponents[2][1])),
                                          Some(game_id))} }

\* map_api_match_to_db_series: the rows it may give (one for each tournament
\* the lookup may answer with), None in place of a row when the match has no
\* id or no date, when the tournament is not found, when an opponent, looked up
\* under its cleaned name, is not found, or when the match has no "bestof".
map_api_match_to_db_series(d, api_match_data, game_id) ==
    IF api_match_data.match2id = None \/ api_match_data.date = None THEN {None}
    ELSE
    { IF db_tournament_id = None \/ team1_id = None \/ team2_id = None THEN None
      ELSE IF api_match_data.bestof = None THEN None
      ELSE Some([is_dict |-> TRUE, series_lp_matchid |-> api_match_data.match2id,
                 tournament_id |-> db_tournament_id, game_id |-> Some(game_id),
                 team1_id |-> team1_id, team2_id |-> team2_id,
                 team1_series_score |-> Some(api_match_data.score)]) :
        db_tournament_id \in
            find_tournament_id_for_match(d, api_match_data.tournament, Some(game_id),
                                         api_match_data.date),
        team1_id \in {get_team_id_by_name(d, Some(Cleaned(api_match_data.opponents[1][1])),
                                          Some(game_id))},
        team2_id \in {get_team_id_by_name(d, Some(Cleaned(api_match_data.opponents[2][1])),
                                          Some(game_id))} }

\* A faulty variant of WithUniqueSeries: a row whose match id is in the batch
\* takes the place of the row that is there.
WithUniqueSeriesKeepingLast(batch, row) ==
    IF row = None THEN batch
    ELSE IF \A i \in 1..Len(batch) :
                batch[i].series_lp_matchid # row[1].series_lp_matchid
    THEN Append(batch, row[1])
    ELSE [i \in 1..Len(batch) |->
             IF batch[i].series_lp_matchid = row[1].series_lp_matchid
             THEN row[1] ELSE batch[i]]

\* "if match_id_key not in unique_series_payloads": the row is added to the
\* batch unless its match id is there already.
WithUniqueSeries(batch, row) ==
    IF row # None /\ \A i \in 1..Len(batch) :
                         batch[i].series_lp_matchid # row[1].series_lp_matchid
    THEN Append(batch, row[1]) ELSE batch

\* What the loop body of a loader may do with one record: the store after it,
\* whether an exception left the call it made, the rows collected so far for
\* the bulk load, and whether 06 added one to its skipped_count.
Worked(d, raised, batch) ==
    [db |-> d, raised |-> raised, batch |-> batch, skipped |-> FALSE]

\* "skipped_count += 1" of 06: the record gave no row.
Skipped(d, batch) == [db |-> d, raised |-> FALSE, batch |-> batch, skipped |-> TRUE]

ProcessItem(script, d, game_id, rec, kind, batch) ==
    IF script = "06"
    THEN { IF row = None THEN Skipped(d, batch)
           ELSE Worked(d, FALSE, WithUniqueSeries(batch, row)) :
             row \in map_api_match_to_db_series(d, MatchRecord(rec, kind), game_id) }
    ELSE IF kind = "skip" THEN {Worked(d, FALSE, batch)}
    ELSE IF script = "02"
    THEN { Worked(r.db, r.raised, batch) :
             r \in {IF kind = "refused" THEN StatementRefused(d)
                    ELSE get_or_create_team(d, LoadTeamArgs(rec, game_id))} }
    ELSE IF script = "03"
    THEN { Worked(r.db, r.raised, batch) :
             r \in {get_or_create_player(d, LoadPlayerArgs(rec, game_id, kind))} }
    ELSE IF script = "04"
    THEN { Worked(r.db, r.raised, batch) :
             r \in {get_or_create_tournament(d, LoadTournamentArgs(rec, game_id, kind))} }
    ELSE UNION {
           { IF t.raised THEN Worked(t.db, TRUE, batch)
             ELSE IF t.ret = None \/ kind = "noplayer" THEN Worked(t.db, FALSE, batch)
             ELSE IF p.raised THEN Worked(p.db, TRUE, batch)
             ELSE IF p.ret = None \/ kind \in {"staff", "nojoin"}
             THEN Worked(p.db, FALSE, batch)
             ELSE Worked(p.db, FALSE,
                         Append(batch, [is_dict |-> TRUE, team_id |-> t.ret,
                                        player_id |-> p.ret, join_date |-> Some(1)])) :
               p \in {IF kind = "refusedplayer" THEN StatementRefused(t.db)
                      ELSE get_or_create_player(t.db, RosterPlayerArgs(rec, game_id, kind))} } :
           t \in {IF kind = "refused" THEN StatementRefused(d)
                  ELSE get_or_create_team(d, RosterTeamArgs(rec, game_id))} }

\* The rows of a game in the tables the loaders write.
RowsOfGame(d, game_id) ==
    [teams |-> {r \in d.teams : r.game_id = game_id},
     players |-> {r \in d.players : r.game_id = game_id},
     tournaments |-> {r \in d.tournaments : r.game_id = game_id},
     series |-> {r \in d.series : r.game_id = Some(game_id)}]

\* The loader goes on to the next game; how it left this one is kept:
\* "failed" (the fetch gave None), "empty", "error" (an exception was caught)
\* or "stored", with the rows of the game as the connection then sees them.
NextGame(r, how, d) ==
    [r EXCEPT !.at = "game", !.game = @ + 1, !.pending = <<>>, !.batch = <<>>,
              !.caught = FALSE, !.skipped = 0, !.seen = <<>>,
              !.done = Append(@, [game_id |-> GameOrder[r.game].game_id, how |-> how,
                                  rows |-> RowsOfGame(d, GameOrder[r.game].game_id)])]

\* An exception reaches the excepts around the whole run: rollback, and the
\* function returns with the games that are left not looked at.
RunAborted(d) ==
    /\ db' = RolledBack(d, committed)
    /\ run' = [run EXCEPT !.at = "ended", !.aborted = TRUE, !.pending = <<>>,
                          !.batch = <<>>]
    /\ UNCHANGED committed

\* conn.commit() by the loader.
RunCommit(d) ==
    /\ committed' = IF d.failed THEN committed ELSE Tables(d)
    /\ db' = IF d.failed THEN RolledBack(d, committed) ELSE d

\* The top of the loop over the games, up to the call of fetch_all: the game
\* row, for 05 the truncation of the game's rosters, and the call.
LoadBeginGame ==
    /\ run.at = "game"
    /\ run.game <= Len(GameOrder)
    /\ LET g == GameOrder[run.game]
           r == get_or_create_game(db, g.game_id, g.name)
           t == truncate_team_rosters_for_game(r.db, g.game_id)
       IN  IF r.raised
           THEN RunAborted(r.db) /\ UNCHANGED fetchVars
           ELSE IF run.script = "05" /\ t.raised
           THEN /\ db' = RolledBack(t.db, committed)
                /\ run' = NextGame(run, "error", db')
                /\ UNCHANGED <<committed, fetchVars>>
           ELSE /\ db' = IF run.script = "05" THEN t.db ELSE r.db
                /\ run' = [run EXCEPT !.at = "fetch"]
                /\ FetchCall([wiki |-> g.liquipedia_wiki, hasLimit |-> FALSE, limit |-> 0])
                /\ UNCHANGED committed
    /\ UNCHANGED <<last, calls>>

\* fetch_all_api_v3_data at work for the loader.
LoadFetch(resp) ==
    /\ run.at = "fetch"
    /\ FetchIteration(resp)
    /\ UNCHANGED <<dbVars, run>>

\* fetch_all has returned: "if data is None: continue", "if not data: continue",
\* or on to the records.
LoadDispatch ==
    /\ run.at = "fetch"
    /\ pc = "done"
    /\ run' = IF LoaderView(ret) = "failed" THEN NextGame(run, "failed", db)
              ELSE IF LoaderView(ret) = "empty" THEN NextGame(run, "empty", db)
              ELSE [run EXCEPT !.at = "items", !.pending = ret.items]
    /\ UNCHANGED <<fetchVars, dbVars>>

\* One pass of the loop over the records.  02 logs an exception and goes on;
\* 03 and 04 roll back and leave the loop; 05 and 06 have no handler there.
\* Of the matches 06 goes through the run keeps what kind each was.  A run
\* goes through MaxLoadItems records at most.
LoadItem ==
    /\ run.at = "items"
    /\ run.pending # <<>>
    /\ run.processed < MaxLoadItems
    /\ \E kind \in ItemKinds(run.script) :
       \E w \in ProcessItem(run.script, db, GameOrder[run.game].game_id,
                            Head(run.pending), kind, run.batch) :
           IF ~w.raised
           THEN /\ db' = w.db
                /\ run' = [run EXCEPT !.processed = @ + 1, !.pending = Tail(@), !.batch = w.batch,
                                      !.skipped = IF w.skipped THEN @ + 1 ELSE @,
                                      !.seen = IF run.script = "06"
                                               THEN Append(@, kind) ELSE @]
                /\ UNCHANGED committed
           ELSE IF run.script = "02"
           THEN /\ db' = w.db
                /\ run' = [run EXCEPT !.processed = @ + 1, !.pending = Tail(@), !.caught = TRUE]
                /\ UNCHANGED committed
           ELSE IF run.script \in {"03", "04"}
           THEN /\ db' = RolledBack(w.db, committed)
                /\ run' = [run EXCEPT !.processed = @ + 1, !.pending = <<>>, !.caught = TRUE]
                /\ UNCHANGED committed
           ELSE RunAborted(w.db)
    /\ UNCHANGED <<fetchVars, last, calls>>

\* After the loop over the records: 05 and 06 bulk-load what they collected,
\* every script but 03 commits, and the next game is on.
LoadFinishGame ==
    /\ run.at = "items"
    /\ run.pending = <<>>
    /\ LET b == IF run.batch = <<>> THEN Returns(db, Some(0))
                ELSE IF run.script = "05"
                THEN bulk_insert_data(db, "TeamRosters", run.batch, roster_cols, "nothing")
                ELSE bulk_insert_data(db, "MatchSeries", run.batch, series_cols, "update")
           how == IF run.caught THEN "error" ELSE "stored"
       IN  IF b.raised THEN RunAborted(b.db)
           ELSE IF run.script = "03"
           THEN /\ db' = b.db
                /\ run' = NextGame(run, how, db')
                /\ UNCHANGED committed
           ELSE /\ RunCommit(b.db)
                /\ run' = NextGame(run, how, db')
    /\ UNCHANGED <<fetchVars, last, calls>>

\* The loop over the games is over: the "with conn" block commits.
LoadEnd ==
    /\ run.at = "game"
    /\ run.game > Len(GameOrder)
    /\ RunCommit(db)
    /\ run' = [run EXCEPT !.at = "ended"]
    /\ UNCHANGED <<fetchVars, last, calls>>

\* A store 02 and 04 have filled: team "Alpha" and tournament "Alpha" of cs2,
\* as these scripts store them, committed.
LoadedStore ==
    LET d1 == get_or_create_team(EmptyStore, LoadTeamArgs(<<1, 1>>, "cs2")).db
    IN  get_or_create_tournament(d1, LoadTournamentArgs(<<1, 1>>, "cs2", "ok")).db

\* A store an earlier run of 05 has filled: team "Alpha" and player "Alpha" of
\* cs2 and the roster row that joins them, committed.
RosteredStore ==
    LET t == get_or_create_team(EmptyStore, RosterTeamArgs(<<1, 1>>, "cs2"))
        q == get_or_create_player(t.db, RosterPlayerArgs(<<1, 1>>, "cs2", "ok"))
    IN  bulk_insert_data(q.db, "TeamRosters",
                         << [is_dict |-> TRUE, team_id |-> t.ret, player_id |-> q.ret,
                             join_date |-> Some(1)] >>,
                         roster_cols, "nothing").db

\* A script starts on a new connection: 02 to 04 on the store as set up, 05 on
\* that store or on one that has rosters, 06 on a store that has teams and
\* tournaments.  The run keeps the tables as it found them.
InitLoad ==
    /\ FetchAtRest
    /\ last = NoCall
    /\ calls = 0
    /\ \E script \in LoaderScripts :
          /\ db \in IF script = "06" THEN {LoadedStore}
                    ELSE IF script = "05" THEN {EmptyStore, RosteredStore}
                    ELSE {EmptyStore}
          /\ committed = Tables(db)
          /\ run = [script |-> script, at |-> "game", game |-> 1, pending |-> <<>>,
                    batch |-> <<>>, skipped |-> 0, seen |-> <<>>, processed |-> 0,
                    caught |-> FALSE,
                    aborted |-> FALSE, done |-> <<>>, found |-> Tables(db)]

NextLoad ==
    \/ LoadBeginGame
    \/ \E resp \in Responses(Len(log) + 1, limit_per_page) : LoadFetch(resp)
    \/ LoadDispatch
    \/ LoadItem
    \/ LoadFinishGame
    \/ LoadEnd

SpecLoad == InitLoad /\ [][NextLoad]_vars

(***************************************************************************)
(* Properties of the loader scripts.                                       *)
(***************************************************************************)
\* The games the run has left behind, by their place in GameOrder.
GamesDone == 1..Len(run.done)

\* C17: an exception raised while a game is worked on never ends the run (a
\* run that has ended has gone through every game), and a game left after an
\* exception has nothing stored beyond what was committed.
C17_ErrorNeverEndsRun ==
    /\ ~run.aborted
    /\ run.at = "ended" => Len(run.done) = Len(GameOrder)
    /\ \A i \in GamesDone :
          run.done[i].how = "error" =>
              run.done[i].rows = RowsOfGame(committed, run.done[i].game_id)

\* The same for the scripts that catch the exception inside the loop over the
\* games (02, 03 and 04).
ErrorNeverEndsRunWhereCaught ==
    run.script \in {"02", "03", "04"} => C17_ErrorNeverEndsRun

\* rows holds every row of kept.
RowsKept(kept, rows) ==
    /\ kept.teams \subseteq rows.teams
    /\ kept.players \subseteq rows.players
    /\ kept.tournaments \subseteq rows.tournaments
    /\ kept.series \subseteq rows.series

\* C18: the rows written for a game that was worked through without an
\* exception are still stored whatever happens in the games after it.
C18_EarlierGamesKeepRows ==
    \A i \in GamesDone :
        run.done[i].how = "stored" =>
            RowsKept(run.done[i].rows, RowsOfGame(db, run.done[i].game_id))

\* The same for the scripts that commit at the end of each game (all but 03).
EarlierGamesKeepRowsWhereCommitted ==
    run.script # "03" => C18_EarlierGamesKeepRows

\* C19: the loader never works on the records of a query one of whose
\* requests failed.
C19_FailedQueryNotProcessed == run.at = "items" => ~FetchFailed

\* The branch "if data is None" is never taken: no game is left as "failed".
NoGameLeftAsFailed == \A i \in GamesDone : run.done[i].how # "failed"

(***************************************************************************)
(* Two connections, each making one call of get_or_create_team and then     *)
(* ending its transaction.  A statement sees what is committed and what its *)
(* own transaction has written (READ COMMITTED); the sequence is shared     *)
(* and not transactional.  An INSERT whose key is held by a row that the    *)
(* other, still open, transaction has inserted waits for that transaction   *)
(* to end.  The schema is taken with and without UNIQUE (team_name,         *)
(* game_id).                                                                *)
(***************************************************************************)
Sessions == {1, 2}

Other(i) == 3 - i

\* The calls the two connections make: the same team, or another one.
RaceTeamInputs ==
    { [team_name |-> Some(<<name>>), api_pagename |-> None, game_id |-> Some("cs2"),
       region |-> None, location |-> None, is_disbanded |-> None]
      : name \in {"Alpha", "Beta"} }

\* A faulty variant of Conflicting: no row ever holds the key.
ConflictingNever(rows, name, game) == FALSE

\* UNIQUE (team_name, game_id): a row of rows holds the key.
Conflicting(rows, name, game) ==
    \E r \in rows : r.team_name = name /\ r.game_id = game

\* The store as a statement of connection i sees it.
View(i) ==
    [EmptyStore EXCEPT !.games = committed.games,
                       !.teams = committed.teams \cup run.s[i].pending,
                       !.seq.teams = run.seq]

\* The SELECT of the call, and for a row that is found the return of its id
\* (the calls carry no attribute, so there is no UPDATE).
RaceLookup(i) ==
    /\ run.s[i].pc = "start"
    /\ LET a == run.s[i].args
           found == SelectTeam(View(i), a.team_name[1], a.game_id[1])
       IN  run' = [run EXCEPT
                     !.s[i].lookups = @ + 1,
                     !.s[i].looked_after = Len(run.inserts),
                     !.s[i].pc = IF found = {} THEN "looked" ELSE "returned",
                     !.s[i].ret = IF found = {} THEN None
                                  ELSE Some((CHOOSE r \in found : TRUE).team_id)]
    /\ UNCHANGED <<fetchVars, dbVars>>

\* The INSERT meets the constraint: with the constraint, a committed row with
\* the key makes it raise; without one, or with no such row, the row is
\* written and the call returns its id.
Inserted(i, r, id) ==
    LET a == r.s[i].args
        row == [team_id |-> id, team_name |-> a.team_name[1], game_id |-> a.game_id[1],
                region |-> a.region, location |-> a.location, is_disbanded |-> Some(FALSE)]
    IN  IF r.unique /\ Conflicting(committed.teams, a.team_name[1], a.game_id[1])
        THEN [r EXCEPT !.s[i].pc = "raised", !.s[i].raised = TRUE]
        ELSE [r EXCEPT !.s[i].pc = "returned", !.s[i].ret = Some(id),
                       !.s[i].pending = @ \cup {row}]

\* The INSERT of the call: it takes its id from the sequence, then waits if
\* the other open transaction holds the key.
RaceInsert(i) ==
    /\ run.s[i].pc = "looked"
    /\ LET a == run.s[i].args
           r == [run EXCEPT !.seq = @ + 1, !.inserts = Append(@, i), !.s[i].id = run.seq]
       IN  run' = IF /\ run.unique
                     /\ run.s[Other(i)].pc \notin {"committed", "rolledback"}
                     /\ Conflicting(run.s[Other(i)].pending, a.team_name[1], a.game_id[1])
                  THEN [r EXCEPT !.s[i].pc = "waiting"]
                  ELSE Inserted(i, r, run.seq)
    /\ UNCHANGED <<fetchVars, dbVars>>

\* The other transaction has ended: the INSERT that waited goes on.
RaceResume(i) ==
    /\ run.s[i].pc = "waiting"
    /\ run.s[Other(i)].pc \in {"committed", "rolledback"}
    /\ run' = Inserted(i, run, run.s[i].id)
    /\ UNCHANGED <<fetchVars, dbVars>>

\* The caller commits after a call that returned.
RaceCommit(i) ==
    /\ run.s[i].pc = "returned"
    /\ committed' = [committed EXCEPT !.teams = @ \cup run.s[i].pending]
    /\ run' = [run EXCEPT !.s[i].pc = "committed", !.s[i].pending = {}]
    /\ UNCHANGED <<fetchVars, db, last, calls>>

\* The caller rolls back: after a call that raised, or later in its
\* transaction for a reason of its own.
RaceRollback(i) ==
    /\ run.s[i].pc \in {"returned", "raised"}
    /\ run' = [run EXCEPT !.s[i].pc = "rolledback", !.s[i].pending = {},
                          !.s[i].undone = (run.s[i].pc = "returned")]
    /\ UNCHANGED <<fetchVars, dbVars>>

InitRace ==
    /\ FetchAtRest
    /\ db = EmptyStore
    /\ committed = Tables(EmptyStore)
    /\ last = NoCall
    /\ calls = 0
    /\ \E unique \in BOOLEAN : \E a1, a2 \in RaceTeamInputs :
          run = [script |-> "race", at |-> "race", unique |-> unique, seq |-> 1,
                 inserts |-> <<>>,
                 s |-> [i \in Sessions |->
                          [pc |-> "start", args |-> IF i = 1 THEN a1 ELSE a2,
                           lookups |-> 0, looked_after |-> 0, id |-> 0, ret |-> None,
                           raised |-> FALSE, undone |-> FALSE, pending |-> {}]]]

NextRace ==
    \/ \E i \in Sessions : RaceLookup(i)
    \/ \E i \in Sessions : RaceInsert(i)
    \/ \E i \in Sessions : RaceResume(i)
    \/ \E i \in Sessions : RaceCommit(i)
    \/ \E i \in Sessions : RaceRollback(i)

SpecRace == InitRace /\ [][NextRace]_vars

(***************************************************************************)
(* Properties of two interleaved calls.                                    *)
(***************************************************************************)
\* Both calls are for one key, both lookups ran before either INSERT, and
\* both transactions have ended.
RaceOver ==
    /\ run.s[1].args = run.s[2].args
    /\ Len(run.inserts) = 2
    /\ \A i \in Sessions : run.s[i].looked_after = 0
    /\ \A i \in Sessions : run.s[i].pc \in {"committed", "rolledback"}

\* The committed rows with the key of the calls.
RowsForRacedKey ==
    {r \in committed.teams : /\ r.team_name = run.s[1].args.team_name[1]
                             /\ r.game_id = run.s[1].args.game_id[1]}

\* The callers that ended their transaction by a commit.
Committers == {i \in Sessions : run.s[i].pc = "committed"}

\* C20 as stated, for a store with the constraint: after two calls for one key
\* whose lookups both ran before either INSERT, one row for the key is stored
\* and the second INSERT raised.
C20_SecondInsertAlwaysFails ==
    (RaceOver /\ run.unique) =>
        /\ Cardinality(RowsForRacedKey) = 1
        /\ run.s[run.inserts[2]].raised

\* C20, amended: two calls for one key whose lookups both ran before either
\* INSERT.  With the uniqueness constraint the first INSERT returns, and the
\* second raises to its caller exactly when the first caller commits; when
\* the first caller rolls back instead, the second INSERT returns too.  A call
\* makes one lookup, whether its INSERT raised or not.  The rows stored for the
\* key are as many as the callers that committed, and with the constraint never
\* more than one; without the constraint no INSERT raises, and two rows are
\* stored when both callers commit.
C20_RaceOnOneKey ==
    RaceOver =>
        /\ \A i \in Sessions : run.s[i].lookups = 1
        /\ Cardinality(RowsForRacedKey) = Cardinality(Committers)
        /\ ~run.s[run.inserts[1]].raised
        /\ IF run.unique
           THEN /\ run.s[run.inserts[2]].raised <=> run.inserts[1] \in Committers
                /\ run.s[run.inserts[2]].raised => run.s[run.inserts[2]].ret = None
                /\ Cardinality(RowsForRacedKey) <= 1
           ELSE ~run.s[run.inserts[2]].raised

\* The race has been run with the constraint and the first caller committed:
\* the second INSERT raised, and one row is stored.
C20_Witness ==
    /\ RaceOver
    /\ run.unique
    /\ run.inserts[1] \in Committers
    /\ run.s[run.inserts[2]].raised
    /\ run.s[run.inserts[2]].lookups = 1
    /\ Cardinality(RowsForRacedKey) = 1

\* The race has been run with the constraint and the first caller rolled back:
\* the INSERT that waited returned, its caller committed, one row is stored.
RaceFirstRolledBack ==
    /\ RaceOver
    /\ run.unique
    /\ run.s[run.inserts[1]].undone
    /\ ~run.s[run.inserts[2]].raised
    /\ run.inserts[2] \in Committers
    /\ Cardinality(RowsForRacedKey) = 1

\* The race has been run without the constraint, and two rows are stored.
RaceWithoutConstraintStoresTwo ==
    /\ RaceOver
    /\ ~run.unique
    /\ Cardinality(RowsForRacedKey) = 2

(***************************************************************************)
(* Properties of get_or_create_game.                                       *)
(***************************************************************************)
\* A step that is a call of get_or_create_game for a game that is stored.
GameCalledAgain ==
    /\ calls' = calls + 1
    /\ last'.kind = "game"
    /\ \E g \in db.games : g.game_id = last'.args.game_id

\* C21: a call of get_or_create_game for a game identifier that is stored, with
\* whatever display name, leaves the Games table as it is (the stored display
\* name included, and no row added) and, where the transaction is not aborted,
\* returns the game identifier it was given.
C21_GameRowImmutable ==
    [][GameCalledAgain =>
          /\ db'.games = db.games
          /\ ~db.failed => (~last'.raised /\ last'.ret = Some(last'.args.game_id))]_vars

\* cs2 has been reconciled under another display name than the one stored.
C21_Witness ==
    /\ last.kind = "game"
    /\ ~last.raised
    /\ last.args = [game_id |-> "cs2", game_name |-> "CS2"]
    /\ last.ret = Some("cs2")
    /\ [game_id |-> "cs2", game_name |-> "Counter-Strike 2"] \in db.games

(***************************************************************************)
(* Properties of the resolver's search order.                              *)
(***************************************************************************)
\* The name of the last call as the resolver normalizes it.
NormalizedName == Strip(ReplaceUnderscores(last.args.raw[1]))

\* The normalized name of the last call has a shorter name derived from it, and
\* both names have a stored tournament of the asked game that contains the date.
FullAndParentMatch ==
    /\ SearchedQuery
    /\ MatchesOf(NormalizedName) # {}
    /\ \E r \in db.tournaments :
          /\ Len(r.tournament_name) < Len(NormalizedName)
          /\ SubSeq(NormalizedName, 1, Len(r.tournament_name)) = r.tournament_name
          /\ InSeq(r.tournament_name, Candidates)
          /\ MatchesOf(r.tournament_name) # {}

\* C22: the candidate names are tried in the order they were derived, the
\* normalized original name first, and the call returns a tournament of the first
\* candidate that has a containment match; so when both the full stage-qualified
\* name and a parent name derived from it have a stored tournament that contains
\* the date, a tournament stored under the full name is returned.
C22_FirstCandidateWins ==
    (SearchedQuery /\ ~db.failed) =>
        /\ \A i \in 1..Len(Candidates) :
              ( /\ MatchesOf(Candidates[i]) # {}
                /\ \A j \in 1..(i - 1) : MatchesOf(Candidates[j]) = {} )
              => \E r \in MatchesOf(Candidates[i]) : last.ret = Some(r.tournament_id)
        /\ FullAndParentMatch =>
              \E r \in MatchesOf(NormalizedName) : last.ret = Some(r.tournament_id)

\* "Major X: Playoffs" and "Major X" are both stored with a window that contains
\* the date; asked for "Major X: Playoffs", the call returned the row of that name.
C22_Witness ==
    /\ FullAndParentMatch
    /\ last.args.raw = Some(MajorXPlayoffs)
    /\ MatchesOf(MajorX) # {}
    /\ \E r \in MatchesOf(MajorXPlayoffs) : last.ret = Some(r.tournament_id)

(***************************************************************************)
(* Properties of the resolver's name-only fallback.                        *)
(***************************************************************************)
\* The stored tournaments of the asked game that bear the normalized name.
NamedAsAsked ==
    {r \in db.tournaments :
        r.tournament_name = NormalizedName /\ r.game_id = last.args.game_id[1]}

\* Some candidate name of the last call has a containment match.
SomeCandidateMatches == \E i \in 1..Len(Candidates) : MatchesOf(Candidates[i]) # {}

\* The days between a row's start date and the asked date.
DaysFromStart(r) ==
    IF r.start_date[1] >= last.args.date[1]
    THEN r.start_date[1] - last.args.date[1]
    ELSE last.args.date[1] - r.start_date[1]

\* C23: when some candidate name has a containment match the call returns one of
\* the containment matches, so the name-only fallback has not run; when none has,
\* the call returns a tournament of the asked game stored under the first
\* candidate (the normalized original name) whose start date is nearest to the
\* asked date, and absent when no tournament of the game bears that name, whatever
\* is stored under a stripped parent name.
C23_FallbackOnFirstCandidate ==
    (SearchedQuery /\ ~db.failed) =>
        /\ Candidates[1] = NormalizedName
        /\ SomeCandidateMatches =>
              \E i \in 1..Len(Candidates) : \E r \in MatchesOf(Candidates[i]) :
                  last.ret = Some(r.tournament_id)
        /\ ~SomeCandidateMatches =>
              IF NamedAsAsked = {} THEN last.ret = None
              ELSE \E r \in NamedAsAsked :
                      /\ last.ret = Some(r.tournament_id)
                      /\ \A o \in NamedAsAsked : DaysFromStart(r) <= DaysFromStart(o)

\* Two tournaments of the asked name are stored, neither contains the date, and
\* one starts nearer to it than the other: the call returned the nearer one.
C23_Witness ==
    /\ SearchedQuery
    /\ ~SomeCandidateMatches
    /\ \E r, o \in NamedAsAsked :
          /\ DaysFromStart(r) < DaysFromStart(o)
          /\ last.ret = Some(r.tournament_id)

\* Only the parent of the asked stage is stored, and it does not contain the
\* date: the fallback does not look the parent up, and the call returned absent.
ParentNotLookedUpByFallback ==
    /\ SearchedQuery
    /\ ~SomeCandidateMatches
    /\ NamedAsAsked = {}
    /\ \E i \in 2..Len(Candidates) : \E r \in db.tournaments :
          r.tournament_name = Candidates[i] /\ r.game_id = last.args.game_id[1]
    /\ last.ret = None

(***************************************************************************)
(* Properties of the match-series loader.                                  *)
(***************************************************************************)
\* The match-series loader is in its loop over the fetched matches of a game.
SeriesLoop == run.script = "06" /\ run.at = "items"

\* The fetched matches the loop has gone through.
MatchesProcessed == SubSeq(ret.items, 1, Len(ret.items) - Len(run.pending))

\* The match the loop went through at place i, as the record it was.
MatchAt(i) == MatchRecord(MatchesProcessed[i], run.seen[i])

\* An opponent of the match is not a stored team of the game.
OpponentMissing(api_match_data, k, game_id) ==
    \A r \in db.teams : ~(/\ r.team_name = Cleaned(api_match_data.opponents[k][1])
                          /\ r.game_id = game_id)

\* No stored tournament answers for the match, or one of its two opponents is
\* not a stored team of the game.
Unresolvable(api_match_data, game_id) ==
    \/ find_tournament_id_for_match(db, api_match_data.tournament, Some(game_id),
                                    api_match_data.date) = {None}
    \/ OpponentMissing(api_match_data, 1, game_id)
    \/ OpponentMissing(api_match_data, 2, game_id)

\* A MatchSeries row names its tournament and both its teams.
FullyResolved(row) ==
    row.tournament_id # None /\ row.team1_id # None /\ row.team2_id # None

\* C24: a pass of the loop of the match-series loader over a match whose
\* tournament is not resolved or one of whose opponents is not found adds no
\* row to the batch, adds one to skipped_count and writes nothing to the store;
\* and after every pass each row of the batch, which is what the loader hands
\* to the bulk loader, names a tournament and two teams.
C24_UnresolvedSeriesSkipped ==
    [][(SeriesLoop /\ SeriesLoop' /\ Len(run'.seen) = Len(run.seen) + 1) =>
          /\ Unresolvable(MatchRecord(Head(run.pending), run'.seen[Len(run'.seen)]),
                          GameOrder[run.game].game_id)
                => /\ run'.batch = run.batch
                   /\ run'.skipped = run.skipped + 1
                   /\ db' = db
                   /\ committed' = committed
          /\ \A j \in 1..Len(run'.batch) : FullyResolved(run'.batch[j])]_vars

\* The loop over the matches of cs2 is through: one match gave the one row of
\* the batch, and a match of the stored tournament whose first opponent is
\* stored and whose second is not was skipped.
C24_Witness ==
    /\ SeriesLoop
    /\ run.pending = <<>>
    /\ GameOrder[run.game].game_id = "cs2"
    /\ Len(run.batch) = 1
    /\ run.skipped >= 1
    /\ \E i \in 1..Len(MatchesProcessed) :
          /\ find_tournament_id_for_match(db, MatchAt(i).tournament, Some("cs2"),
                                          MatchAt(i).date) # {None}
          /\ ~OpponentMissing(MatchAt(i), 1, "cs2")
          /\ OpponentMissing(MatchAt(i), 2, "cs2")

(***************************************************************************)
(* Properties of the batches the loaders collect.                          *)
(***************************************************************************)
\* The natural key of a row of a loader's batch.
BatchRowKey(script, row) ==
    IF script = "05" THEN <<row.team_id, row.player_id, row.join_date>>
    ELSE <<row.series_lp_matchid>>

\* No two rows of the batch have the same natural key.
BatchKeysUnique ==
    \A i, j \in 1..Len(run.batch) :
        BatchRowKey(run.script, run.batch[i]) = BatchRowKey(run.script, run.batch[j])
            => i = j

\* C25: the batch of the roster loader and the batch of the match-series
\* loader never hold two rows with the same natural key.
C25_BatchesUniqueByKey ==
    (run.script \in {"05", "06"} /\ run.at = "items") => BatchKeysUnique

\* The fetched matches gone through that have a row to give: the match has
\* its id and "bestof", and its tournament and both opponents are stored.
Mappable == {i \in 1..Len(MatchesProcessed) :
                /\ MatchAt(i).match2id # None
                /\ MatchAt(i).bestof # None
                /\ ~Unresolvable(MatchAt(i), GameOrder[run.game].game_id)}

\* The batch after a pass of the loop: the rows that were in it are in it
\* unchanged and at their places, and a row that is new comes last.
BatchOnlyAppended ==
    /\ Len(run'.batch) \in {Len(run.batch), Len(run.batch) + 1}
    /\ \A j \in 1..Len(run.batch) : run'.batch[j] = run.batch[j]

\* What holds of the match-series loader alone: its batch never holds two rows
\* with the same series id, and a pass of its loop leaves the rows of the batch as
\* they are, so that the row held for a series id is the one the first match of
\* that id that gave a row was mapped to.
SeriesBatchUniqueFirstKept ==
    [][SeriesLoop' =>
          /\ BatchKeysUnique'
          /\ SeriesLoop => BatchOnlyAppended]_vars

\* The feed gave match m1 on its first page and again, with another score, on
\* its second: the batch has the one row for m1, with the score of the first page.
SeriesBatchKeptFirst ==
    /\ SeriesLoop
    /\ run.pending = <<>>
    /\ \E i, k \in Mappable :
          /\ i < k
          /\ ItemMatchId(MatchesProcessed[i]) = ItemMatchId(MatchesProcessed[k])
          /\ ItemScore(MatchesProcessed[i]) # ItemScore(MatchesProcessed[k])
          /\ Len(run.batch) = 1
          /\ run.batch[1].team1_series_score = Some(ItemScore(MatchesProcessed[i]))

\* The roster loader holds two rows of one team, player and join date.
RosterBatchRepeatsKey ==
    /\ run.script = "05"
    /\ run.at = "items"
    /\ ~BatchKeysUnique

(***************************************************************************)
(* Properties of the accumulation in fetch_all_api_v3_data.                *)
(***************************************************************************)
\* The page size a call must use: the limit asked for, or the API's maximum
\* when none was asked for or the one asked for is larger.
CappedLimit ==
    IF base_params.hasLimit /\ base_params.limit <= API_V3_LIMIT
    THEN base_params.limit ELSE API_V3_LIMIT

\* The records of the non-empty pages received before the i-th request.
ReceivedBefore(i) == ConcatPages(OkEntries(SubSeq(log, 1, i - 1)))

\* C26: throughout a call of fetch_all_api_v3_data the accumulated records are
\* the pages received so far, one after the other in the order they were fetched
\* and each in its own order; every request carried as offset the number of
\* records accumulated before it, the first one 0, and so will the next; and every
\* request carried the same page size, the limit asked for capped at the API's
\* maximum.
C26_AccumulationInvariant ==
    op = "fetch_all" =>
        /\ all_records = ConcatPages(OkEntries(log))
        /\ \A k \in 1..(Len(all_records) - 1) :
              \/ all_records[k][1] < all_records[k + 1][1]
              \/ /\ all_records[k][1] = all_records[k + 1][1]
                 /\ all_records[k][2] + 1 = all_records[k + 1][2]
        /\ \A i \in 1..Len(log) :
              /\ log[i].offset = Len(ReceivedBefore(i))
              /\ log[i].limit = CappedLimit
        /\ Len(log) >= 1 => log[1].offset = 0
        /\ pc = "loop" => offset = Len(all_records)
        /\ limit_per_page = CappedLimit

\* Asked for pages larger than the API's maximum, the call has received two
\* full pages of the maximum size and is about to ask for the third.
C26_Witness ==
    /\ op = "fetch_all"
    /\ pc = "loop"
    /\ base_params.hasLimit
    /\ base_params.limit > API_V3_LIMIT
    /\ API_V3_LIMIT = 2
    /\ Len(log) = 2
    /\ log[2].offset = 2
    /\ offset = 4
    /\ all_records = << <<1, 1>>, <<1, 2>>, <<2, 1>>, <<2, 2>> >>

(***************************************************************************)
(* Properties of the roster loader.                                        *)
(***************************************************************************)
\* The roster rows of the teams of a game in a set of tables.
RostersOfGame(tables, game_id) ==
    {r \in tables.rosters :
        \E t \in tables.teams : Some(t.team_id) = r.team_id /\ t.game_id = game_id}

\* C27: when the roster loader has ended, the roster rows it found stored for
\* the teams of a game whose squad-player fetch failed or gave no records are
\* still stored.
C27_RostersSurviveEmptyFetch ==
    (run.script = "05" /\ run.at = "ended") =>
        \A i \in GamesDone :
            run.done[i].how \in {"failed", "empty"} =>
                RostersOfGame(run.found, run.done[i].game_id) \subseteq committed.rosters

\* The roster loader has ended without an exception, on a store that had roster
\* rows of cs2, after a fetch for cs2 that gave no records.
RosterRunOverEmptyFetch ==
    /\ run.script = "05"
    /\ run.at = "ended"
    /\ ~run.aborted
    /\ RostersOfGame(run.found, "cs2") # {}
    /\ run.done[1].how = "empty"

(***************************************************************************)
(* Properties of what the resolver returns and leaves alone.               *)
(***************************************************************************)
\* A step that is a call of find_tournament_id_for_match.
FindStep == calls' = calls + 1 /\ last'.kind = "find"

\* The stored tournaments of the game asked for in the call of the step that
\* bear one of the candidate names derived from its raw name.
CandidateRows ==
    {r \in db.tournaments :
        /\ Some(r.game_id) = last'.args.game_id
        /\ InSeq(r.tournament_name, CandidatesOf[last'.args.raw[1]])}

\* C28: a call of find_tournament_id_for_match that returns an identifier
\* returns the identifier of a stored tournament of the game asked for whose name
\* is one of the candidate names derived from the raw name, and the call leaves
\* every stored row, committed or not, as it was.
C28_ReturnsStoredCandidateOfGame ==
    [][FindStep =>
          /\ db' = db
          /\ committed' = committed
          /\ last'.ret # None =>
                \E r \in CandidateRows : last'.ret = Some(r.tournament_id)]_vars

\* "Major X" is stored for cs2 and for valorant, both with a window that
\* contains the date; asked for the one of cs2, the call returned it.
C28_Witness ==
    /\ CompleteQuery
    /\ last.args.game_id = Some("cs2")
    /\ \E r, o \in db.tournaments :
          /\ r.tournament_name = MajorX /\ o.tournament_name = MajorX
          /\ r.game_id = "cs2" /\ o.game_id = "valorant"
          /\ o.start_date[1] <= last.args.date[1] /\ last.args.date[1] <= o.end_date[1]
          /\ r.start_date[1] <= last.args.date[1] /\ last.args.date[1] <= r.end_date[1]
          /\ last.ret = Some(r.tournament_id)

(***************************************************************************)
(* Determinism of the resolver.                                            *)
(***************************************************************************)
\* The values a call of find_tournament_id_for_match can return on the store
\* as it is.
PossibleResults(q) == find_tournament_id_for_match(db, q.raw, q.game_id, q.date)

\* C29: on one set of stored tournaments, two calls of
\* find_tournament_id_for_match with the same raw name, game and date return the
\* same value: the call has one possible result.
C29_SameQuerySameResult ==
    \A q \in Queries : \A x, y \in PossibleResults(q) : x = y

\* The stored tournaments of the game of a query that bear its normalized name.
NamedAsQuery(q) ==
    {r \in db.tournaments :
        /\ r.tournament_name = Strip(ReplaceUnderscores(q.raw[1]))
        /\ Some(r.game_id) = q.game_id}

\* A query has more than one possible result only by way of the name-only
\* fallback: no stored tournament of a candidate name contains the date, and
\* two tournaments of the normalized name start equally far from it.
OnlyTiedFallbackUndetermined ==
    \A q \in Queries :
        Cardinality(PossibleResults(q)) > 1 =>
            /\ \A r \in db.tournaments :
                  ( /\ Some(r.game_id) = q.game_id
                    /\ InSeq(r.tournament_name,
                             SearchNames(Strip(ReplaceUnderscores(q.raw[1])))) )
                  => ~(r.start_date[1] <= q.date[1] /\ q.date[1] <= r.end_date[1])
            /\ \E r, o \in NamedAsQuery(q) :
                  /\ r # o
                  /\ Distance(r.start_date[1], q.date[1]) = Distance(o.start_date[1], q.date[1])
                  /\ PossibleResults(q) = {Some(r.tournament_id), Some(o.tournament_id)}

(***************************************************************************)
(* Termination of fetch_all_api_v3_data.                                   *)
(***************************************************************************)
\* A call of fetch_all is inside its loop.
InLoop == op = "fetch_all" /\ pc = "loop"

\* C30: a call of fetch_all_api_v3_data returns once the remote source answers a
\* request with an empty page, a page shorter than the page size or a failure,
\* which it does sooner or later; from one request of a call to the next the
\* offset grows; and a call that has returned after a request on the wire has
\* returned on such an answer, the last of its log: after full pages alone the
\* call is still in its loop.
C30_FetchAllTerminates ==
    /\ [](op = "fetch_all" =>
            /\ \A i \in 1..(Len(log) - 1) : log[i].offset < log[i + 1].offset
            /\ (Len(log) >= 1 /\ IsTerminal(log[Len(log)])) => pc = "done"
            /\ (pc = "done" /\ Len(log) >= 1) => IsTerminal(log[Len(log)])
            /\ (Len(log) >= 1 /\ \A i \in 1..Len(log) : IsFullPage(log[i])) => pc = "loop")
    /\ (InLoop ~> pc = "done")

\* Two full pages, then an empty page: the call has returned.
C30_Witness ==
    /\ op = "fetch_all"
    /\ pc = "done"
    /\ Len(log) = 3
    /\ IsFullPage(log[1])
    /\ IsFullPage(log[2])
    /\ log[3].kind = "ok"
    /\ log[3].page = <<>>
    /\ log[3].offset = 2 * limit_per_page

(***************************************************************************)
(* The test data and its cleanup (SpecTestData).                           *)
(***************************************************************************)
\* The FOREIGN KEYs of TeamRosters hold in what is committed.
CommittedRostersRefer ==
    \A r \in committed.rosters :
        /\ \E t \in committed.teams : Some(t.team_id) = r.team_id
        /\ \E p \in committed.players : Some(p.player_id) = r.player_id

\* Every roster row the first connection sees refers to rows it sees.
FirstConnectionRostersRefer ==
    ~db.failed =>
        \A r \in db.rosters :
            /\ \E t \in db.teams : Some(t.team_id) = r.team_id
            /\ \E p \in db.players : Some(p.player_id) = r.player_id

\* The cleanup deletes no row that the first connection's transaction holds.
LockedRowsStay == run.gone \cap run.locked = {}

\* The cleanup is about to commit: it did not find the test team, which is
\* committed by now, and it has deleted a roster row of that team.
MissedTeamLosesRoster ==
    /\ run.pc = "commit"
    /\ run.test_team_id = None
    /\ \E t \in committed.teams :
          /\ t.team_name = TEST_TEAM_NAME
          /\ \E r \in committed.rosters : /\ r.team_id = Some(t.team_id)
                                          /\ <<"TeamRosters", r.roster_id>> \in run.gone
          /\ <<"Teams", t.team_id>> \notin run.gone

\* The cleanup is about to commit: it found no test player, one is committed
\* by now, and it has deleted a roster row of that player.
MissedPlayerLosesRoster ==
    /\ run.pc = "commit"
    /\ run.test_player_ids = <<>>
    /\ \E p \in committed.players :
          /\ p.player_nickname = TEST_PLAYER_NICKNAMES[1]
          /\ \E r \in committed.rosters : /\ r.player_id = Some(p.player_id)
                                          /\ <<"TeamRosters", r.roster_id>> \in run.gone
          /\ <<"Players", p.player_id>> \notin run.gone

\* Each connection waits for the other.
BothWait ==
    /\ run.asked # None
    /\ RosterWaits(run.asked[1])
    /\ run.todo # {}
    /\ run.todo \subseteq run.locked

\* The roster statement waits for the player's row, which the cleanup has
\* deleted, and holds the team's row, which the cleanup has still to delete.
WaitingStatementHoldsTeam ==
    /\ run.asked # None
    /\ RosterWaits(run.asked[1])
    /\ <<"Players", run.asked[1].player_id[1]>> \in run.gone
    /\ <<"Teams", run.asked[1].team_id[1]>> \in run.locked
    /\ run.todo = {<<"Teams", run.asked[1].team_id[1]>>}

\* The cleanup lost a deadlock and rolled back; the roster statement that had
\* waited for it inserted its row, and the player and the team are stored.
RosterInsertedAfterDeadlock ==
    /\ last.kind = "upsert"
    /\ ~last.raised
    /\ run.pc = "select_team"
    /\ run.gone = {}
    /\ committed.rosters = {}
    /\ \E r \in db.rosters :
          /\ last.ret = Some(r.roster_id)
          /\ \E t \in committed.teams : Some(t.team_id) = r.team_id
          /\ \E q \in committed.players : Some(q.player_id) = r.player_id
    /\ run.locked = {<<"Teams", last.args.team_id[1]>>, <<"Players", last.args.player_id[1]>>}

\* The roster call waited, and raised once the cleanup had committed.
RosterCallRaisedAfterWait ==
    /\ last.kind = "upsert"
    /\ last.raised
    /\ db.seq.rosters > 1
    /\ committed.teams = {}
    /\ run.pc = "select_team"

====
